---- MODULE Spec2Model ----
(***************************************************************************)
(* The Anthropic streaming path of dhenara: AnthropicChat's streaming      *)
(* handler (_handle_streaming_response), its per-event translation         *)
(* (process_content_item_delta), the non-streaming parse path              *)
(* (parse_response, process_content_item) and the stream aggregator        *)
(* (StreamingManager) they drive.                                          *)
(*                                                                         *)
(* Python values: None of a string field is the string "None"; None of an  *)
(* object field is the record Null; a dict is a function from its keys     *)
(* (the empty dict is <<>>); a str is a TLA+ string, + is \o.              *)
(***************************************************************************)
EXTENDS Integers, Sequences, FiniteSets, TLC

\* Bounds of the model.
MaxEvents == 3       \* events one live upstream delivers
MaxTokens == 1       \* the nonzero token count a vendor event reports
MaxBlocks == 2       \* content blocks of one replayed transcript
MaxBudget == 2       \* the largest token budget or cap of a call configuration or model

None == "None"
Null == [null |-> TRUE]

Indices == {0, 1}
Tokens == {0, MaxTokens}

(***************************************************************************)
(* The vendor's events (anthropic.types, chat.py:4-21).                    *)
(***************************************************************************)
MessageStartEvents ==
    { [type |-> "message_start",
       message |-> [id |-> "msg_1", model |-> "claude", role |-> "assistant", usage |-> u]] :
        u \in {Null} \cup [input_tokens : Tokens, output_tokens : Tokens] }

ContentBlocks ==
    { [type |-> "text"], [type |-> "thinking"],
      [type |-> "tool_use", id |-> "toolu_1", name |-> "f"],
      [type |-> "redacted_thinking", data |-> "r"] }

ContentBlockStartEvents ==
    { [type |-> "content_block_start", index |-> i, content_block |-> b] :
        i \in Indices, b \in ContentBlocks }

\* TextDelta, ThinkingDelta, SignatureDelta, and InputJSONDelta, which chat.py
\* does not import.
Deltas ==
    { [type |-> "text_delta", text |-> "a"], [type |-> "text_delta", text |-> "b"],
      [type |-> "thinking_delta", thinking |-> "t"],
      [type |-> "signature_delta", signature |-> "s"],
      [type |-> "input_json_delta", partial_json |-> "j"] }

ContentBlockDeltaEvents ==
    { [type |-> "content_block_delta", index |-> i, delta |-> d] : i \in Indices, d \in Deltas }

ContentBlockStopEvents ==
    { [type |-> "content_block_stop", index |-> i] : i \in Indices }

FinalStopReasons ==
    { [stop_reason |-> "end_turn", stop_sequence |-> None],
      [stop_reason |-> "stop_sequence", stop_sequence |-> "STOP"] }

StopReasons == FinalStopReasons \cup { [stop_reason |-> None, stop_sequence |-> None] }

MessageDeltaEvents ==
    { [type |-> "message_delta", delta |-> s, usage |-> [output_tokens |-> n]] :
        s \in StopReasons, n \in Tokens }

MessageStopEvents == { [type |-> "message_stop"] }

\* An event of none of the six classes the handler tests for.
OtherEvents == { [type |-> "ping"] }

LaterEvents ==
    ContentBlockStartEvents \cup ContentBlockDeltaEvents \cup ContentBlockStopEvents
        \cup MessageDeltaEvents \cup MessageStopEvents \cup OtherEvents

AllEvents == MessageStartEvents \cup LaterEvents

(***************************************************************************)
(* SSEErrorCode (_sse_response.py).                                        *)
(***************************************************************************)
SSEErrorCode == {"server_error", "external_api_error", "client_decode_error"}

(***************************************************************************)
(* Helpers.                                                                *)
(***************************************************************************)
Min(S) == CHOOSE m \in S : \A n \in S : m <= n

RECURSIVE SortedSeq(_)
SortedSeq(S) == IF S = {} THEN <<>> ELSE <<Min(S)>> \o SortedSeq(S \ {Min(S)})

RECURSIVE SeqMap(_, _)
SeqMap(Op(_), s) == IF s = <<>> THEN <<>> ELSE <<Op(Head(s))>> \o SeqMap(Op, Tail(s))

RECURSIVE Concat(_)
Concat(ss) == IF ss = <<>> THEN "" ELSE Head(ss) \o Concat(Tail(ss))

RECURSIVE Flatten(_)
Flatten(ss) == IF ss = <<>> THEN <<>> ELSE Head(ss) \o Flatten(Tail(ss))

(***************************************************************************)
(* StreamingManager: the stream aggregator.  Its code is not among the     *)
(* sources; it is modelled from the specification's section 4.2.           *)
(***************************************************************************)
\* StreamingManager(model_endpoint): nothing accumulated, usage not yet known.
StreamingManagerInit == [usage |-> Null, choices |-> <<>>]

\* update_usage(usage): merge a reported usage; completion tokens are additive
\* and the total is recomputed as prompt + completion.
UpdateUsage(sm, usage) ==
    LET prompt == IF sm.usage = Null THEN usage.prompt_tokens
                  ELSE sm.usage.prompt_tokens + usage.prompt_tokens
        completion == IF sm.usage = Null THEN usage.completion_tokens
                      ELSE sm.usage.completion_tokens + usage.completion_tokens
    IN  [sm EXCEPT !.usage = [total_tokens |-> prompt + completion,
                              prompt_tokens |-> prompt,
                              completion_tokens |-> completion]]

\* The buffer a first-seen content delta creates at its index.
NewBuffer(cd) ==
    [type |-> cd.type, index |-> cd.index, role |-> cd.role,
     text |-> IF cd.type = "text" THEN cd.text_delta ELSE "",
     thinking_text |-> IF cd.type # "reasoning" THEN None
                       ELSE IF "thinking_text_delta" \in DOMAIN cd THEN cd.thinking_text_delta
                       ELSE cd.thinking_text,
     metadata |-> IF cd.type = "reasoning" THEN cd.metadata ELSE <<>>,
     raw |-> IF cd.type = "unknown" THEN <<cd.raw>> ELSE <<>>]

\* Append a content delta's incremental payload onto the buffer of its index.
AppendToBuffer(buf, cd) ==
    CASE cd.type = "text" -> [buf EXCEPT !.text = @ \o cd.text_delta]
      [] cd.type = "reasoning" ->
            LET frag == IF "thinking_text_delta" \in DOMAIN cd THEN cd.thinking_text_delta
                        ELSE cd.thinking_text
            IN  [buf EXCEPT !.thinking_text = IF frag = None THEN @
                                              ELSE IF @ = None THEN frag ELSE @ \o frag,
                            !.metadata = cd.metadata @@ @]
      [] cd.type = "unknown" -> [buf EXCEPT !.raw = Append(@, cd.raw)]
      [] OTHER -> buf

MergeContentDelta(contents, cd) ==
    IF cd.index \in DOMAIN contents
    THEN [contents EXCEPT ![cd.index] = AppendToBuffer(@, cd)]
    ELSE (cd.index :> NewBuffer(cd)) @@ contents

RECURSIVE MergeContentDeltas(_, _)
MergeContentDeltas(contents, cds) ==
    IF cds = <<>> THEN contents
    ELSE MergeContentDeltas(MergeContentDelta(contents, Head(cds)), Tail(cds))

NewChoice(index) ==
    [index |-> index, finish_reason |-> None, stop_sequence |-> None, contents |-> <<>>]

\* One choice delta: merge its content deltas, latch finish_reason and
\* stop_sequence when present.
MergeChoiceDelta(choices, d) ==
    LET ch == IF d.index \in DOMAIN choices THEN choices[d.index] ELSE NewChoice(d.index)
        merged == [ch EXCEPT
                     !.contents = MergeContentDeltas(@, d.content_deltas),
                     !.finish_reason = IF d.finish_reason # None THEN d.finish_reason ELSE @,
                     !.stop_sequence = IF d.stop_sequence # None THEN d.stop_sequence ELSE @]
    IN  (d.index :> merged) @@ choices

RECURSIVE MergeChoiceDeltas(_, _)
MergeChoiceDeltas(choices, ds) ==
    IF ds = <<>> THEN choices
    ELSE MergeChoiceDeltas(MergeChoiceDelta(choices, Head(ds)), Tail(ds))

\* update(choice_deltas): the manager after the merge ...
Update(sm, choice_deltas) ==
    [sm EXCEPT !.choices = MergeChoiceDeltas(@, choice_deltas)]

\* ... and the envelope it returns: an echo of the same deltas.
UpdateEnvelope(choice_deltas) == [choice_deltas |-> choice_deltas]

\* The final content item a buffer rehydrates into.
ContentItemOf(buf) ==
    CASE buf.type = "text" ->
            [type |-> "text", index |-> buf.index, role |-> buf.role, text |-> buf.text]
      [] buf.type = "reasoning" ->
            [type |-> "reasoning", index |-> buf.index, role |-> buf.role,
             thinking_text |-> buf.thinking_text, metadata |-> buf.metadata]
      [] OTHER ->
            [type |-> "unknown", index |-> buf.index, role |-> buf.role, raw |-> buf.raw]

ChoiceOf(ch) ==
    [index |-> ch.index, finish_reason |-> ch.finish_reason,
     stop_sequence |-> ch.stop_sequence,
     contents |-> LET idx == SortedSeq(DOMAIN ch.contents)
                  IN  [k \in 1 .. Len(idx) |-> ContentItemOf(ch.contents[idx[k]])]]

\* complete(): one Choice per observed index, ascending, in a ChatResponse
\* flagged streaming.
Complete(sm) ==
    [usage |-> sm.usage,
     choices |-> LET idx == SortedSeq(DOMAIN sm.choices)
                 IN  [k \in 1 .. Len(idx) |-> ChoiceOf(sm.choices[idx[k]])],
     metadata |-> [streaming |-> TRUE]]

(***************************************************************************)
(* Helpers of the provider base class, not among the sources; modelled     *)
(* from the specification (sections 3, 4.3 and 7).                         *)
(***************************************************************************)
\* The index an Unknown item gets: get_unknown_content_type_item is not
\* handed the event's index, and fields default to zero.
UnknownItemIndex == 0

\* get_unknown_content_type_item(role, unknown_item, streaming): the Unknown
\* variant, carrying the raw payload.
GetUnknownContentTypeItem(role, unknown_item, streaming) ==
    [type |-> "unknown", index |-> UnknownItemIndex, role |-> role, raw |-> unknown_item]

\* _create_streaming_error_response(exc): an error frame with a code of the
\* closed set and a message.
CreateStreamingErrorResponse(exc, code) ==
    [class |-> "SSEErrorResponse", event |-> "error",
     data |-> [error_code |-> code, message |-> exc.type]]

(***************************************************************************)
(* AnthropicChat (chat.py): the translation of one event.                  *)
(***************************************************************************)
\* chat.py:153-159
MessageMetadata(message) ==
    [id |-> message.id, model |-> message.model, role |-> message.role, index |-> 0]

\* Mutant: the seed of the completion tokens is dropped.
StartUsageNoSeed(_usage) ==
    [total_tokens |-> 0,
     prompt_tokens |-> _usage.input_tokens,
     completion_tokens |-> 0]

\* chat.py:166-170: the usage handed to update_usage on message_start.
StartUsage(_usage) ==
    [total_tokens |-> 0,
     prompt_tokens |-> _usage.input_tokens,
     completion_tokens |-> _usage.output_tokens]

\* Mutant: the total is not recomputed after the output tokens are added.
MessageDeltaUsageStaleTotal(usage, chunk) ==
    [usage EXCEPT !.completion_tokens = @ + chunk.usage.output_tokens]

\* Mutant: the output tokens are assigned, not added.
MessageDeltaUsageAssigned(usage, chunk) ==
    [usage EXCEPT !.completion_tokens = chunk.usage.output_tokens,
                  !.total_tokens = usage.prompt_tokens + chunk.usage.output_tokens]

\* Mutant: the completion count is added to the running total.
MessageDeltaUsageRunningTotal(usage, chunk) ==
    LET completion == usage.completion_tokens + chunk.usage.output_tokens
    IN  [usage EXCEPT !.completion_tokens = completion,
                      !.total_tokens = usage.total_tokens + completion]

\* chat.py:232-233: output tokens are added, the total recomputed.
MessageDeltaUsage(usage, chunk) ==
    LET completion == usage.completion_tokens + chunk.usage.output_tokens
    IN  [usage EXCEPT !.completion_tokens = completion,
                      !.total_tokens = usage.prompt_tokens + completion]

\* Mutant: the text delta loses the event's index.
ProcessContentItemDeltaAtZero(index, role, delta) ==
    CASE delta.type = "text_delta" ->
            [type |-> "text", index |-> 0, role |-> role, text_delta |-> delta.text]
      [] delta.type = "thinking_delta" ->
            [type |-> "reasoning", index |-> index, role |-> role,
             thinking_text_delta |-> delta.thinking, metadata |-> <<>>]
      [] delta.type = "signature_delta" ->
            [type |-> "reasoning", index |-> index, role |-> role,
             thinking_text_delta |-> "", metadata |-> [signature |-> delta.signature]]
      [] OTHER -> GetUnknownContentTypeItem(role, delta, TRUE)

\* Mutant: the else branch returns an empty text delta instead of the
\* Unknown variant.
ProcessContentItemDeltaTextFallback(index, role, delta) ==
    CASE delta.type = "text_delta" ->
            [type |-> "text", index |-> index, role |-> role, text_delta |-> delta.text]
      [] delta.type = "thinking_delta" ->
            [type |-> "reasoning", index |-> index, role |-> role,
             thinking_text_delta |-> delta.thinking, metadata |-> <<>>]
      [] delta.type = "signature_delta" ->
            [type |-> "reasoning", index |-> index, role |-> role,
             thinking_text_delta |-> "", metadata |-> [signature |-> delta.signature]]
      [] OTHER -> [type |-> "text", index |-> index, role |-> role, text_delta |-> ""]

\* chat.py:359-389
ProcessContentItemDelta(index, role, delta) ==
    CASE delta.type = "text_delta" ->
            [type |-> "text", index |-> index, role |-> role, text_delta |-> delta.text]
      [] delta.type = "thinking_delta" ->
            [type |-> "reasoning", index |-> index, role |-> role,
             thinking_text_delta |-> delta.thinking, metadata |-> <<>>]
      [] delta.type = "signature_delta" ->
            [type |-> "reasoning", index |-> index, role |-> role,
             thinking_text_delta |-> "", metadata |-> [signature |-> delta.signature]]
      [] OTHER -> GetUnknownContentTypeItem(role, delta, TRUE)

\* Mutant: the redacted block's item gets the choice's index, not the event's.
RedactedChoiceDeltasAtChoiceIndex(chunk, md) ==
    << [index |-> md.index,
        content_deltas |-> << [type |-> "reasoning", index |-> md.index, role |-> md.role,
                               thinking_text |-> None,
                               metadata |-> [redacted_thinking_data |-> chunk.content_block.data]] >>,
        finish_reason |-> None, stop_sequence |-> None, metadata |-> Null] >>

\* chat.py:176-192: a redacted_thinking block arrives whole on its start event.
RedactedChoiceDeltas(chunk, md) ==
    << [index |-> md.index,
        content_deltas |-> << [type |-> "reasoning", index |-> chunk.index, role |-> md.role,
                               thinking_text |-> None,
                               metadata |-> [redacted_thinking_data |-> chunk.content_block.data]] >>,
        finish_reason |-> None, stop_sequence |-> None, metadata |-> Null] >>

\* chat.py:207-221
ContentBlockDeltaChoiceDeltas(chunk, md) ==
    << [index |-> md.index,
        content_deltas |-> << ProcessContentItemDelta(chunk.index, md.role, chunk.delta) >>,
        finish_reason |-> None, stop_sequence |-> None, metadata |-> Null] >>

\* Mutant: stop reason and stop sequence change places.
MessageDeltaChoiceDeltasSwapped(chunk, md) ==
    << [index |-> md.index,
        finish_reason |-> chunk.delta.stop_sequence,
        stop_sequence |-> chunk.delta.stop_reason,
        content_deltas |-> <<>>, metadata |-> <<>>] >>

\* Mutant: the stop reason is not forwarded.
MessageDeltaChoiceDeltasNoFinish(chunk, md) ==
    << [index |-> md.index,
        finish_reason |-> None,
        stop_sequence |-> chunk.delta.stop_sequence,
        content_deltas |-> <<>>, metadata |-> <<>>] >>

\* chat.py:236-244
MessageDeltaChoiceDeltas(chunk, md) ==
    << [index |-> md.index,
        finish_reason |-> chunk.delta.stop_reason,
        stop_sequence |-> chunk.delta.stop_sequence,
        content_deltas |-> <<>>, metadata |-> <<>>] >>

\* StreamingChatResponse(id=message_metadata["id"], data=response_chunk)
StreamingChatResponse(id, data) ==
    [class |-> "StreamingChatResponse", id |-> id, data |-> data]

\* Mutant: the pair is built the wrong way round.
ItemSwapped(first, second) == [delta |-> second, final |-> first]

\* One item of the produced sequence: the pair (stream_response, final_response).
Item(first, second) == [delta |-> first, final |-> second]

\* Mutant: the except clause catches the provider's errors only.
CaughtUpstreamOnly(exc) == exc.where = "upstream"

\* chat.py:145,264: everything raised inside the try block is an Exception
\* and is caught.
Caught(exc) == TRUE

(***************************************************************************)
(* AnthropicChat (chat.py): the non-streaming parse path.                  *)
(***************************************************************************)
\* chat.py:268-276
GetUsageFromProviderResponse(response) ==
    [total_tokens |-> response.usage.input_tokens + response.usage.output_tokens,
     prompt_tokens |-> response.usage.input_tokens,
     completion_tokens |-> response.usage.output_tokens]

\* Mutant: no else branch; a block of no tested kind is taken for text.
ProcessContentItemNoElse(index, role, content_item) ==
    CASE content_item.type = "thinking" ->
            [type |-> "reasoning", index |-> index, role |-> role,
             thinking_text |-> content_item.thinking,
             metadata |-> [signature |-> content_item.signature]]
      [] content_item.type = "redacted_thinking" ->
            [type |-> "reasoning", index |-> index, role |-> role,
             thinking_text |-> None,
             metadata |-> [redacted_thinking_data |-> content_item.data]]
      [] content_item.type = "tool_use" ->
            [type |-> "tool_call", index |-> index, role |-> role,
             metadata |-> [tool_use |-> [id |-> content_item.id,
                                         input |-> content_item.input,
                                         name |-> content_item.name]]]
      [] OTHER ->
            [type |-> "text", index |-> index, role |-> role,
             text |-> IF "text" \in DOMAIN content_item THEN content_item.text ELSE None]

\* chat.py:313-357
ProcessContentItem(index, role, content_item) ==
    CASE content_item.type = "text" ->
            [type |-> "text", index |-> index, role |-> role, text |-> content_item.text]
      [] content_item.type = "thinking" ->
            [type |-> "reasoning", index |-> index, role |-> role,
             thinking_text |-> content_item.thinking,
             metadata |-> [signature |-> content_item.signature]]
      [] content_item.type = "redacted_thinking" ->
            [type |-> "reasoning", index |-> index, role |-> role,
             thinking_text |-> None,
             metadata |-> [redacted_thinking_data |-> content_item.data]]
      [] content_item.type = "tool_use" ->
            [type |-> "tool_call", index |-> index, role |-> role,
             metadata |-> [tool_use |-> [id |-> content_item.id,
                                         input |-> content_item.input,
                                         name |-> content_item.name]]]
      [] OTHER -> GetUnknownContentTypeItem(role, content_item, FALSE)

\* chat.py:278-311; enumerate() numbers the content from 0.
ParseResponse(response) ==
    [usage |-> GetUsageFromProviderResponse(response),
     choices |-> << [index |-> 0,
                     finish_reason |-> response.stop_reason,
                     stop_sequence |-> response.stop_sequence,
                     contents |-> [k \in 1 .. Len(response.content) |->
                                     ProcessContentItem(k - 1, response.role,
                                                        response.content[k])]] >>,
     metadata |-> [streaming |-> FALSE]]

(***************************************************************************)
(* A vendor transcript: one assistant turn, which the vendor delivers      *)
(* either as one final Message or as the events of a stream.  The output   *)
(* tokens are reported as chat.py:161-162 reads the vendor: a few on       *)
(* message_start, the rest on message_delta.                               *)
(***************************************************************************)
TranscriptBlocks ==
    { [type |-> "text", parts |-> <<"a">>], [type |-> "text", parts |-> <<"a", "b">>],
      [type |-> "thinking", parts |-> <<"t">>, signature |-> "s"],
      [type |-> "redacted_thinking", data |-> "r"],
      [type |-> "tool_use", id |-> "toolu_1", name |-> "f", parts |-> <<"j">>] }

BlockSeqs == UNION { [1 .. n -> TranscriptBlocks] : n \in 1 .. MaxBlocks }

Transcripts ==
    { [blocks |-> bs, input_tokens |-> MaxTokens, seed_tokens |-> c0, rest_tokens |-> c1,
       stop |-> st] :
        bs \in BlockSeqs, c0 \in Tokens, c1 \in Tokens, st \in FinalStopReasons }

\* A block of a kind that is none of the four process_content_item tests
\* for (chat.py:319-344): the vendor's union of content blocks is open.
UnknownBlocks == { [type |-> "server_tool_use", id |-> "srvtoolu_1", name |-> "web_search"] }

\* The turns the vendor answers a non-streaming call with.
MessageBlockSeqs ==
    UNION { [1 .. n -> TranscriptBlocks \cup UnknownBlocks] : n \in 1 .. MaxBlocks }

Messages ==
    { [blocks |-> bs, input_tokens |-> MaxTokens, seed_tokens |-> 0, rest_tokens |-> c1,
       stop |-> st] :
        bs \in MessageBlockSeqs, c1 \in Tokens, st \in FinalStopReasons }

\* The block as the final Message holds it.
FinalBlock(b) ==
    CASE b.type = "text" -> [type |-> "text", text |-> Concat(b.parts)]
      [] b.type = "thinking" ->
            [type |-> "thinking", thinking |-> Concat(b.parts), signature |-> b.signature]
      [] b.type = "redacted_thinking" -> [type |-> "redacted_thinking", data |-> b.data]
      [] b.type = "tool_use" ->
            [type |-> "tool_use", id |-> b.id, name |-> b.name, input |-> Concat(b.parts)]
      [] OTHER -> b

\* The vendor's single final Message of a transcript.
FinalMessage(t) ==
    [id |-> "msg_1", model |-> "claude", role |-> "assistant",
     content |-> [k \in 1 .. Len(t.blocks) |-> FinalBlock(t.blocks[k])],
     stop_reason |-> t.stop.stop_reason, stop_sequence |-> t.stop.stop_sequence,
     usage |-> [input_tokens |-> t.input_tokens,
                output_tokens |-> t.seed_tokens + t.rest_tokens]]

\* The events of one block, at index i: start, deltas, stop.
BlockEvents(b, i) ==
    LET start(cb) == [type |-> "content_block_start", index |-> i, content_block |-> cb]
        delta(d) == [type |-> "content_block_delta", index |-> i, delta |-> d]
        stop == [type |-> "content_block_stop", index |-> i]
        text(x) == delta([type |-> "text_delta", text |-> x])
        thinking(x) == delta([type |-> "thinking_delta", thinking |-> x])
        json(x) == delta([type |-> "input_json_delta", partial_json |-> x])
    IN  CASE b.type = "text" ->
                <<start([type |-> "text"])>> \o SeqMap(text, b.parts) \o <<stop>>
          [] b.type = "thinking" ->
                <<start([type |-> "thinking"])>> \o SeqMap(thinking, b.parts)
                    \o <<delta([type |-> "signature_delta", signature |-> b.signature]), stop>>
          [] b.type = "redacted_thinking" ->
                <<start([type |-> "redacted_thinking", data |-> b.data]), stop>>
          [] OTHER ->
                <<start([type |-> "tool_use", id |-> b.id, name |-> b.name])>>
                    \o SeqMap(json, b.parts) \o <<stop>>

\* The events of the vendor's stream of a transcript.
EventsOf(t) ==
    << [type |-> "message_start",
        message |-> [id |-> "msg_1", model |-> "claude", role |-> "assistant",
                     usage |-> [input_tokens |-> t.input_tokens,
                                output_tokens |-> t.seed_tokens]]] >>
    \o Flatten([k \in 1 .. Len(t.blocks) |-> BlockEvents(t.blocks[k], k - 1)])
    \o << [type |-> "message_delta", delta |-> t.stop,
           usage |-> [output_tokens |-> t.rest_tokens]],
          [type |-> "message_stop"] >>

(***************************************************************************)
(* The call: AIModelCallConfig (_model_call_config.py), AIModelCallResponse *)
(* (_model_call.py) and the AnthropicChat object generate_response reads.  *)
(* An int | None is a sequence: <<>> for None, <<n>> for n.                *)
(***************************************************************************)
\* Mutant: a cap of zero passes for a cap.
TruthyIfSet(opt) == opt # <<>>

\* "if x" of an int | None: set and not zero.
Truthy(opt) == opt # <<>> /\ opt[1] # 0

\* Mutant: the value asked for is taken as it is.
AskedOrCap(asked, cap) == IF asked # <<>> THEN asked[1] ELSE cap

\* _model_call_config.py:53-56, 61-64:
\* min(asked if asked is not None else cap, cap)
MinOfAskedAndCap(asked, cap) ==
    LET value == IF asked # <<>> THEN asked[1] ELSE cap
    IN  IF value <= cap THEN value ELSE cap

\* Mutant: the model's support alone decides.
NoReasoningBudgetUnlessCapable(config, _settings, _reasoning_capable) ==
    ~_settings.supports_reasoning \/ _settings.max_reasoning_tokens = <<>>

\* _model_call_config.py:58
NoReasoningBudget(config, _settings, _reasoning_capable) ==
    ~_reasoning_capable \/ ~config.reasoning \/ _settings.max_reasoning_tokens = <<>>

\* _model_call_config.py:31-68: the pair, or the exception raised.
GetMaxOutputTokens(config, model) ==
    IF model = Null THEN [raises |-> "ValueError", message |-> "Model should be passed"]
    ELSE LET _settings == model.settings
             _reasoning_capable == config.reasoning /\ _settings.supports_reasoning
             _settings_max_output_tokens ==
                 IF _reasoning_capable THEN _settings.max_output_tokens_reasoning_mode
                 ELSE _settings.max_output_tokens
         IN  IF ~Truthy(_settings_max_output_tokens)
             THEN [raises |-> "ValueError", message |-> "Invalid call-config"]
             ELSE [max_output_tokens |->
                       MinOfAskedAndCap(config.max_output_tokens,
                                        _settings_max_output_tokens[1]),
                   max_reasoning_tokens |->
                       IF NoReasoningBudget(config, _settings, _reasoning_capable)
                       THEN <<>>
                       ELSE << MinOfAskedAndCap(config.max_reasoning_tokens,
                                                _settings.max_reasoning_tokens[1]) >>]

\* A dict with string keys is a function of its keys; {} has none.
EmptyDict == [key \in {} |-> Null]

\* d.update(other)
DictUpdate(d, other) ==
    [key \in DOMAIN d \cup DOMAIN other |->
        IF key \in DOMAIN other THEN other[key] ELSE d[key]]

\* chat.py:76-104: the arguments of the provider call, from the call
\* configuration and the pair get_max_output_tokens returned.  The model
\* name, the messages, the system prompt and the user are left out: nothing
\* of the call depends on them here.
ChatArgs(config, resolved) ==
    LET stream == [stream |-> config.streaming]
        max_tokens == [max_tokens |-> resolved.max_output_tokens]
        thinking ==
            IF resolved.max_reasoning_tokens = <<>>
            THEN [thinking |-> [type |-> "disabled"]]
            ELSE [thinking |-> [type |-> "enabled",
                                budget_tokens |-> resolved.max_reasoning_tokens[1]]]
    IN  DictUpdate(DictUpdate(DictUpdate(stream, max_tokens), thinking), config.options)

\* _model_call.py:28-51: the fields AIModelCallResponse declares.
ResponseFields ==
    {"status", "chat_response", "async_stream_generator", "sync_stream_generator",
     "image_response"}

\* What the base model does with a keyword that names no declared field.
\* AIModelCallResponse derives from dhenara.ai.types.shared.base.BaseModel, a
\* pydantic model whose configuration is not among the sources: the
\* keyword is refused (a ValidationError) or dropped.
ExtraPolicies == {"forbid", "ignore"}

\* _model_call.py:17-51: construction from keywords.  A declared field
\* that is not given is None.  stream_generator is declared as a read-only
\* property (63-65), not as a field, so that keyword is never stored.
AIModelCallResponse(kwargs, extra) ==
    IF DOMAIN kwargs \subseteq ResponseFields \/ extra = "ignore"
    THEN [f \in ResponseFields |-> IF f \in DOMAIN kwargs THEN kwargs[f] ELSE Null]
    ELSE [raises |-> "ValidationError"]

\* "if x" of an object | None.
IsSet(x) == x # Null

\* _model_call.py:53-61
FullResponse(response) ==
    IF IsSet(response.chat_response) THEN response.chat_response ELSE response.image_response

\* _model_call.py:63-65
StreamGeneratorOf(response) ==
    IF IsSet(response.async_stream_generator) THEN response.async_stream_generator
    ELSE response.sync_stream_generator

\* The generator object chat.py:117 obtains from _handle_streaming_response.
HandlerGenerator == [generator |-> "_handle_streaming_response"]

\* _create_success_status() and _create_error_status(message) of the provider
\* base class, not among the sources.
CreateSuccessStatus == [status |-> "response_received_success", message |-> None]
CreateErrorStatus(message) == [status |-> "response_received_api_error", message |-> message]

\* DummyAIModelResponseFns.get_dummy_ai_model_response, not among the sources:
\* the response of test mode, whatever it holds.
DummyAIModelResponse(streaming) == [dummy |-> TRUE, streaming |-> streaming]

\* The model of the endpoint: AIModel.get_settings().
Models ==
    { Null,
      [settings |-> [max_output_tokens |-> <<8>>, supports_reasoning |-> FALSE,
                     max_output_tokens_reasoning_mode |-> <<>>,
                     max_reasoning_tokens |-> <<>>]],
      [settings |-> [max_output_tokens |-> <<>>, supports_reasoning |-> FALSE,
                     max_output_tokens_reasoning_mode |-> <<>>,
                     max_reasoning_tokens |-> <<>>]] }

\* AIModelCallConfig, the budgets at their defaults.
Configs ==
    [streaming : BOOLEAN, test_mode : BOOLEAN, max_output_tokens : {<<>>},
     reasoning : {FALSE}, max_reasoning_tokens : {<<>>}, options : {EmptyDict}]

Clients ==
    [_client : BOOLEAN, _input_validation_pending : BOOLEAN, config : Configs,
     ai_model : Models]

\* A client ready for a streaming call.
StreamingClient ==
    [_client |-> TRUE, _input_validation_pending |-> FALSE,
     config |-> [streaming |-> TRUE, test_mode |-> FALSE, max_output_tokens |-> <<>>,
                 reasoning |-> FALSE, max_reasoning_tokens |-> <<>>,
                 options |-> EmptyDict],
     ai_model |-> [settings |-> [max_output_tokens |-> <<8>>, supports_reasoning |-> FALSE,
                                 max_output_tokens_reasoning_mode |-> <<>>,
                                 max_reasoning_tokens |-> <<>>]]]

(***************************************************************************)
(* The wire format (_sse_response.py).  A Python str is the sequence of    *)
(* its pieces: each character the code looks for (line breaks, blanks,     *)
(* colons, the punctuation of JSON) on its own, and the words between them *)
(* whole.  A str | None is <<>> for None and <<s>> for s where the code    *)
(* holds it in a dict, and an object | None is Null for None.  A value     *)
(* json.loads returns is [str |-> s], [int |-> n], [bool |-> b],           *)
(* [dict |-> d], [list |-> l] or Null.                                     *)
(***************************************************************************)
\* _sse_response.py:12-17
SSEEventType == {"token_stream", "push", "error"}

NL == "\n"

\* U+2028: a line boundary for str.splitlines() and white space for
\* str.strip(), which a JSON serializer writes as it is.
LS == "<U+2028>"

Whitespace == {" ", NL, LS}

LineBoundaries == {NL, LS}

\* The decimal digits: str(n) and int(s) for the integers of the model.
IntWords == <<"0", "1", "2", "3", "4", "5", "6", "7", "8", "9">>

IntWord(n) == IntWords[n + 1]

IsIntWord(w) == \E n \in 1 .. Len(IntWords) : IntWords[n] = w

IntOfWord(w) == (CHOOSE n \in 1 .. Len(IntWords) : IntWords[n] = w) - 1

Range(s) == { s[k] : k \in 1 .. Len(s) }

\* str.lstrip(), str.strip()
RECURSIVE LStrip(_)
LStrip(t) == IF t # <<>> /\ Head(t) \in Whitespace THEN LStrip(Tail(t)) ELSE t

RECURSIVE RStrip(_)
RStrip(t) ==
    IF t # <<>> /\ t[Len(t)] \in Whitespace THEN RStrip(SubSeq(t, 1, Len(t) - 1)) ELSE t

Strip(t) == RStrip(LStrip(t))

\* The first position of t that holds one of seps; there is one.
FirstOf(t, seps) == Min({ k \in 1 .. Len(t) : t[k] \in seps })

\* str.split(sep): the pieces between the separators, empty ones included.
RECURSIVE Split(_, _)
Split(t, seps) ==
    IF Range(t) \cap seps = {} THEN <<t>>
    ELSE <<SubSeq(t, 1, FirstOf(t, seps) - 1)>>
            \o Split(SubSeq(t, FirstOf(t, seps) + 1, Len(t)), seps)

\* str.splitlines(): no line for the empty string, none after a final
\* line boundary.
SplitLines(t) ==
    IF t = <<>> THEN <<>>
    ELSE LET pieces == Split(t, LineBoundaries)
         IN  IF pieces[Len(pieces)] = <<>> THEN SubSeq(pieces, 1, Len(pieces) - 1)
             ELSE pieces

\* sep.join(lines)
RECURSIVE Join(_, _)
Join(lines, sep) ==
    IF lines = <<>> THEN <<>>
    ELSE IF Len(lines) = 1 THEN lines[1]
    ELSE lines[1] \o sep \o Join(Tail(lines), sep)

\* The default of the field id (_sse_response.py:80-84): the function
\* object given as default, not the None it would return.
IdDefault == [function |-> "SSEResponse.<lambda>"]

\* str(x) of an SSEEventType: BaseEnum is not among the sources; the name
\* written is the value of the member.
StrOfEvent(event) == event

\* str(x) of an id: a str, None, or the default.
StrOfId(id) ==
    IF id = Null THEN <<"None">>
    ELSE IF "str" \in DOMAIN id THEN id.str
    ELSE <<"<function SSEResponse.<lambda>>">>

\* A JSON string literal, a JSON dict | None.
JsonString(text) == <<"\"">> \o text \o <<"\"">>

JsonDictOrNull(x) == IF x = Null THEN <<"null">> ELSE <<"{", "}">>

\* model_dump_json() of SSEDataChunk (20-38) and of SSEErrorData (52-66):
\* the fields in their order, no white space.
ModelDumpJson(data) ==
    IF data.class = "SSEDataChunk"
    THEN <<"{">> \o JsonString(<<"index">>) \o <<":", IntWord(data.index), ",">>
            \o JsonString(<<"content">>) \o <<":">> \o JsonString(data.content) \o <<",">>
            \o JsonString(<<"done">>) \o <<":", IF data.done THEN "true" ELSE "false", ",">>
            \o JsonString(<<"metadata">>) \o <<":">> \o JsonDictOrNull(data.metadata)
            \o <<"}">>
    ELSE <<"{">> \o JsonString(<<"error_code">>) \o <<":">>
            \o JsonString(<<data.error_code>>) \o <<",">>
            \o JsonString(<<"message">>) \o <<":">> \o JsonString(data.message) \o <<",">>
            \o JsonString(<<"details">>) \o <<":">> \o JsonDictOrNull(data.details)
            \o <<"}">>

\* Mutant: the retry line is written when retry is truthy.
RetryLinesIfTruthy(retry) ==
    IF Truthy(retry) THEN << <<"retry", ":", " ", IntWord(retry[1])>> >> ELSE <<>>

\* _sse_response.py:110-111
RetryLines(retry) ==
    IF retry # <<>> THEN << <<"retry", ":", " ", IntWord(retry[1])>> >> ELSE <<>>

\* _sse_response.py:99-125
ToSSEFormat(r) ==
    LET data_str == ModelDumpJson(r.data)
        lines == << <<"event", ":", " ", StrOfEvent(r.event)>>,
                    <<"id", ":", " ">> \o StrOfId(r.id) >>
                 \o RetryLines(r.retry)
                 \o [k \in 1 .. Len(SplitLines(data_str)) |->
                        <<"data", ":", " ">> \o SplitLines(data_str)[k]]
    IN  Join(lines, <<NL>>) \o <<NL, NL>>

\* json.loads.  The value that starts at t[i] and the position after it,
\* or a failure.
JsonFail == [fail |-> TRUE]

RECURSIVE JsonValueAt(_, _)
RECURSIVE JsonMembersAt(_, _, _)
JsonValueAt(t, i) ==
    IF i > Len(t) THEN JsonFail
    ELSE CASE t[i] = "\"" ->
                LET closes == { j \in i + 1 .. Len(t) : t[j] = "\"" }
                IN  IF closes = {} THEN JsonFail
                    ELSE [value |-> [str |-> SubSeq(t, i + 1, Min(closes) - 1)],
                          next |-> Min(closes) + 1]
           [] IsIntWord(t[i]) -> [value |-> [int |-> IntOfWord(t[i])], next |-> i + 1]
           [] t[i] \in {"true", "false"} ->
                [value |-> [bool |-> t[i] = "true"], next |-> i + 1]
           [] t[i] = "null" -> [value |-> Null, next |-> i + 1]
           [] t[i] = "[" ->
                IF i < Len(t) /\ t[i + 1] = "]"
                THEN [value |-> [list |-> <<>>], next |-> i + 2]
                ELSE JsonFail
           [] t[i] = "{" ->
                IF i < Len(t) /\ t[i + 1] = "}"
                THEN [value |-> [dict |-> <<>>], next |-> i + 2]
                ELSE JsonMembersAt(t, i + 1, <<>>)
           [] OTHER -> JsonFail

\* The members of an object from t[i] on, after those of acc.
JsonMembersAt(t, i, acc) ==
    LET key == JsonValueAt(t, i)
    IN  IF "fail" \in DOMAIN key \/ key.value = Null \/ "str" \notin DOMAIN key.value
        THEN JsonFail
        ELSE IF key.next > Len(t) \/ t[key.next] # ":" THEN JsonFail
        ELSE LET val == JsonValueAt(t, key.next + 1)
             IN  IF "fail" \in DOMAIN val \/ val.next > Len(t) THEN JsonFail
                 ELSE LET members == Append(acc, [key |-> Concat(key.value.str),
                                                  value |-> val.value])
                      IN  IF t[val.next] = ","
                          THEN JsonMembersAt(t, val.next + 1, members)
                          ELSE IF t[val.next] = "}"
                          THEN [value |->
                                  [dict |->
                                     [k \in { members[n].key : n \in 1 .. Len(members) } |->
                                        members[CHOOSE n \in 1 .. Len(members) :
                                                   /\ members[n].key = k
                                                   /\ \A m \in n + 1 .. Len(members) :
                                                         members[m].key # k].value]],
                                next |-> val.next + 1]
                          ELSE JsonFail

JsonLoads(t) ==
    LET parsed == JsonValueAt(t, 1)
    IN  IF "fail" \in DOMAIN parsed \/ parsed.next # Len(t) + 1
        THEN [raises |-> "JSONDecodeError"]
        ELSE [value |-> parsed.value]

IsPy(x, kind) == x # Null /\ kind \in DOMAIN x

\* raw_data.get(key, default) of a dict.
Get(raw, key, default) == IF key \in DOMAIN raw.dict THEN raw.dict[key] ELSE default

\* SSEEventType(value), SSEErrorCode(value): the member, or ValueError.
EnumOf(members, x) ==
    IF IsPy(x, "str") /\ Len(x.str) = 1 /\ x.str[1] \in members
    THEN [value |-> x.str[1]]
    ELSE [raises |-> "ValueError"]

\* int(s): the integer, or ValueError.
IntOf(text) ==
    IF Len(Strip(text)) = 1 /\ IsIntWord(Strip(text)[1])
    THEN [value |-> IntOfWord(Strip(text)[1])]
    ELSE [raises |-> "ValueError"]

\* SSEErrorData(...) (52-66) and SSEDataChunk(...) (20-38), validated: the
\* object, or ValidationError.
NewSSEErrorData(error_code, message, details) ==
    IF IsPy(message, "str") /\ (details = Null \/ IsPy(details, "dict"))
    THEN [value |-> [class |-> "SSEErrorData", error_code |-> error_code,
                     message |-> message.str, details |-> details]]
    ELSE [raises |-> "ValidationError"]

NewSSEDataChunk(index, content, done, metadata) ==
    LET int_index == IF IsPy(index, "int") THEN [value |-> index.int]
                     ELSE IF IsPy(index, "str") THEN IntOf(index.str)
                     ELSE [raises |-> "ValueError"]
    IN  IF /\ "value" \in DOMAIN int_index
           /\ IsPy(content, "str") /\ IsPy(done, "bool")
           /\ (metadata = Null \/ IsPy(metadata, "dict"))
        THEN [value |-> [class |-> "SSEDataChunk", index |-> int_index.value,
                         content |-> content.str, done |-> done.bool,
                         metadata |-> metadata]]
        ELSE [raises |-> "ValidationError"]

\* SSEResponse(...) (69-88) and SSEErrorResponse(...) (233-237).
NewSSEResponse(event, data, id, retry) ==
    [class |-> "SSEResponse", event |-> event, data |-> data, id |-> id, retry |-> retry]

NewSSEErrorResponse(data, id, retry) ==
    [class |-> "SSEErrorResponse", event |-> "error", data |-> data, id |-> id,
     retry |-> retry]

\* The response of a frame that cannot be decoded (160-165, 188-207,
\* 225-230): id and retry at their defaults.
DecodeErrorResponse(message) ==
    NewSSEErrorResponse([class |-> "SSEErrorData", error_code |-> "client_decode_error",
                         message |-> message, details |-> Null],
                        IdDefault, <<>>)

\* _sse_response.py:130-154: the fields of the lines, the last of each
\* kept, and the values of the data lines.
RECURSIVE ScanLines(_, _)
ScanLines(lines, acc) ==
    IF lines = <<>> THEN acc
    ELSE LET line == Head(lines)
         IN  IF Strip(line) = <<>> \/ ":" \notin Range(line)
             THEN ScanLines(Tail(lines), acc)
             ELSE LET colon == FirstOf(line, {":"})
                      field == Strip(SubSeq(line, 1, colon - 1))
                      value == LStrip(SubSeq(line, colon + 1, Len(line)))
                  IN  IF field = <<"data">>
                      THEN ScanLines(Tail(lines),
                                     [acc EXCEPT !.data_lines = Append(@, value)])
                      ELSE IF field \in { <<"event">>, <<"id">>, <<"retry">> }
                      THEN ScanLines(Tail(lines), [acc EXCEPT ![field[1]] = <<value>>])
                      ELSE ScanLines(Tail(lines), acc)

EventData(sse_str) ==
    ScanLines(Split(Strip(sse_str), {NL}),
              [event |-> <<>>, id |-> <<>>, retry |-> <<>>, data_lines |-> <<>>])

\* _sse_response.py:96-97
is_error(response) == response.event = "error"

\* Mutant: a frame must name its event.
EventTypeRequired(event) ==
    EnumOf(SSEEventType, [str |-> IF event = <<>> THEN <<>> ELSE event[1]])

\* _sse_response.py:157-158: the member named by the event field; a frame
\* with no event field, or an empty one, is an error event.
EventTypeOf(event) ==
    IF event # <<>> /\ event[1] # <<>>
    THEN EnumOf(SSEEventType, [str |-> event[1]])
    ELSE [value |-> "error"]

\* _sse_response.py:170-186: the data of the frame, or the exception raised.
ParseData(event_type, data_lines) ==
    LET loaded == JsonLoads(Flatten(data_lines))
    IN  IF "raises" \in DOMAIN loaded THEN loaded
        ELSE IF ~IsPy(loaded.value, "dict") THEN [raises |-> "AttributeError"]
        ELSE LET raw_data == loaded.value
             IN  IF event_type = "error"
                 THEN LET code == IF "error_code" \in DOMAIN raw_data.dict
                                  THEN EnumOf(SSEErrorCode, raw_data.dict["error_code"])
                                  ELSE [value |-> "server_error"]
                      IN  IF "raises" \in DOMAIN code THEN code
                          ELSE NewSSEErrorData(code.value,
                                               Get(raw_data, "message",
                                                   [str |-> <<"Unknown error">>]),
                                               Get(raw_data, "details", Null))
                 ELSE NewSSEDataChunk(Get(raw_data, "index", [int |-> 0]),
                                      Get(raw_data, "content", [str |-> <<>>]),
                                      Get(raw_data, "done", [bool |-> FALSE]),
                                      Get(raw_data, "metadata", Null))

\* Mutant: only the JSON decoding error is caught.
CaughtParsingDataJsonOnly(type) == type = "JSONDecodeError"

\* _sse_response.py:187-200: json.JSONDecodeError, then Exception.
CaughtParsingData(type) == TRUE

\* _sse_response.py:127-230: the response, or the exception that leaves
\* parse_sse.
ParseSSE(sse_str) ==
    LET event_data == EventData(sse_str)
        event_type == EventTypeOf(event_data.event)
        id == IF event_data.id = <<>> THEN Null ELSE [str |-> event_data.id[1]]
    IN  IF "raises" \in DOMAIN event_type
        THEN DecodeErrorResponse(<<"Invalid event type">>)
        ELSE IF event_data.data_lines = <<>>
        THEN DecodeErrorResponse(<<"No data found in SSE event">>)
        ELSE LET data == ParseData(event_type.value, event_data.data_lines)
                 retry == IF event_data.retry # <<>> /\ event_data.retry[1] # <<>>
                          THEN LET n == IntOf(event_data.retry[1])
                               IN  IF "raises" \in DOMAIN n THEN n ELSE [value |-> <<n.value>>]
                          ELSE [value |-> <<>>]
             IN  IF "raises" \in DOMAIN data
                 THEN IF CaughtParsingData(data.raises)
                      THEN DecodeErrorResponse(
                               IF data.raises = "JSONDecodeError"
                               THEN <<"Invalid JSON in stream data">>
                               ELSE <<"Failed to parse stream data">>)
                      ELSE data
                 ELSE IF "raises" \in DOMAIN retry
                 THEN DecodeErrorResponse(<<"Failed to create SSE response">>)
                 ELSE IF event_type.value = "error"
                 THEN NewSSEErrorResponse(data.value, id, retry.value)
                 ELSE NewSSEResponse(event_type.value, data.value, id, retry.value)

(***************************************************************************)
(* The state of one streaming call.                                        *)
(*   pc               where the generator stands: "pull" (awaiting the     *)
(*                    next upstream event), "yielded" / "final_yielded" /  *)
(*                    "error_yielded" (suspended at a yield), "done"       *)
(*                    (exhausted), "raised" (an exception left it)         *)
(*   stream_manager   the call's StreamingManager                          *)
(*   message_metadata the per-call context, Null while it is {}            *)
(*   out              the items handed to the consumer so far              *)
(*   consumed         the upstream events processed so far, each with the  *)
(*                    number of items out held when it was pulled          *)
(*   raised           the exception raised inside the try block, or Null   *)
(*   script           a replayed transcript's events still to be delivered *)
(*   transcript       the replayed transcript, Null for a live upstream    *)
(*   self             the AnthropicChat object: its client handle, its     *)
(*                    pending input validation, its call configuration and *)
(*                    the model of its endpoint                            *)
(*   call             what generate_response handed to its caller: Null    *)
(*                    before it returns and where the generator is driven  *)
(*                    without it, the AIModelCallResponse it returned, or  *)
(*                    the exception it raised                              *)
(*   parked           the local state of a second streaming call that is   *)
(*                    suspended while this one runs, Null when there is    *)
(*                    none                                                 *)
(*   sse              a wire-format conversion in progress: its stage     *)
(*                    ("response", "wire", "parsed"), the response that is *)
(*                    serialized or the frame that arrived, the text, and  *)
(*                    what parse_sse made of it; Null when there is none   *)
(*   budget_call      a call of get_max_output_tokens: its call             *)
(*                    configuration, the model passed, and the pair it      *)
(*                    returned or the exception it raised (Null before it   *)
(*                    returns); Null when there is none                     *)
(*   chat_args        the request generate_response built for the provider, *)
(*                    Null before it is built                               *)
(* pc is "call" before generate_response runs, "returned" when it returned *)
(* a response without a stream, "call_raised" when it raised.              *)
(***************************************************************************)
VARIABLES pc, stream_manager, message_metadata, out, consumed, raised, script, transcript,
          self, call, parked, sse, budget_call, chat_args

vars == <<pc, stream_manager, message_metadata, out, consumed, raised, script, transcript,
          self, call, parked, sse, budget_call, chat_args>>

Live == transcript = Null

\* What the upstream delivers next.  A live upstream opens with
\* message_start, as the vendor's protocol does, and then delivers any
\* event in any order; a replay delivers the transcript's events.
Offered(chunk) ==
    IF Live
    THEN /\ Len(consumed) < MaxEvents
         /\ chunk \in (IF consumed = <<>> THEN MessageStartEvents ELSE LaterEvents)
    ELSE script # <<>> /\ chunk = Head(script)

Pulled(chunk) ==
    /\ consumed' = Append(consumed, [chunk |-> chunk, at |-> Len(out)])
    /\ script' = IF Live THEN script ELSE Tail(script)
    /\ UNCHANGED <<transcript, self, call, parked, sse, budget_call, chat_args>>

\* Mutant: the error item is yielded and the exception raised again.
ExceptReraises(exc, sm) ==
    /\ raised' = exc
    /\ stream_manager' = sm
    /\ \E code \in SSEErrorCode :
          out' = Append(out, Item(CreateStreamingErrorResponse(exc, code), Null))
    /\ pc' = "raised"
    /\ UNCHANGED message_metadata

\* chat.py:264-266: the exception becomes one error item.
Except(exc, sm) ==
    /\ raised' = exc
    /\ stream_manager' = sm
    /\ IF Caught(exc)
       THEN \E code \in SSEErrorCode :
               /\ out' = Append(out, Item(CreateStreamingErrorResponse(exc, code), Null))
               /\ pc' = "error_yielded"
       ELSE out' = out /\ pc' = "raised"
    /\ UNCHANGED message_metadata

\* Mutant: the frame is buffered and the loop goes on to the next pull
\* without waiting for the consumer.
YieldDeltaNoSuspend(sm, choice_deltas) ==
    /\ stream_manager' = Update(sm, choice_deltas)
    /\ out' = Append(out, Item(StreamingChatResponse(message_metadata.id,
                                                     UpdateEnvelope(choice_deltas)), Null))
    /\ pc' = "pull"
    /\ UNCHANGED <<message_metadata, raised>>

\* Mutant: the frame is forwarded without being merged.
YieldDeltaForwardOnly(sm, choice_deltas) ==
    /\ stream_manager' = sm
    /\ out' = Append(out, Item(StreamingChatResponse(message_metadata.id,
                                                     UpdateEnvelope(choice_deltas)), Null))
    /\ pc' = "yielded"
    /\ UNCHANGED <<message_metadata, raised>>

\* update(), wrap, yield (chat.py:194-200, 222-227, 245-250).
YieldDelta(sm, choice_deltas) ==
    IF message_metadata = Null
    THEN Except([type |-> "KeyError", where |-> "translate"], Update(sm, choice_deltas))
    ELSE /\ stream_manager' = Update(sm, choice_deltas)
         /\ out' = Append(out, Item(StreamingChatResponse(message_metadata.id,
                                                          UpdateEnvelope(choice_deltas)), Null))
         /\ pc' = "yielded"
         /\ UNCHANGED <<message_metadata, raised>>

\* An event that yields nothing: the loop goes on to the next pull.
NoYield ==
    /\ pc' = "pull"
    /\ UNCHANGED <<stream_manager, message_metadata, out, raised>>

\* chat.py:149-171
OnMessageStart(chunk) ==
    /\ pc = "pull"
    /\ Offered(chunk)
    /\ chunk.type = "message_start"
    /\ Pulled(chunk)
    /\ message_metadata' = MessageMetadata(chunk.message)
    /\ stream_manager' = IF chunk.message.usage # Null
                         THEN UpdateUsage(stream_manager, StartUsage(chunk.message.usage))
                         ELSE stream_manager
    /\ pc' = "pull"
    /\ UNCHANGED <<out, raised>>

\* chat.py:173-204
OnContentBlockStart(chunk) ==
    /\ pc = "pull"
    /\ Offered(chunk)
    /\ chunk.type = "content_block_start"
    /\ Pulled(chunk)
    /\ IF chunk.content_block.type = "redacted_thinking"
       THEN IF message_metadata = Null
            THEN Except([type |-> "KeyError", where |-> "translate"], stream_manager)
            ELSE YieldDelta(stream_manager, RedactedChoiceDeltas(chunk, message_metadata))
       ELSE NoYield

\* chat.py:206-227
OnContentBlockDelta(chunk) ==
    /\ pc = "pull"
    /\ Offered(chunk)
    /\ chunk.type = "content_block_delta"
    /\ Pulled(chunk)
    /\ IF message_metadata = Null
       THEN Except([type |-> "KeyError", where |-> "translate"], stream_manager)
       ELSE YieldDelta(stream_manager, ContentBlockDeltaChoiceDeltas(chunk, message_metadata))

\* chat.py:228-229
OnContentBlockStop(chunk) ==
    /\ pc = "pull"
    /\ Offered(chunk)
    /\ chunk.type = "content_block_stop"
    /\ Pulled(chunk)
    /\ NoYield

\* chat.py:230-250
OnMessageDelta(chunk) ==
    /\ pc = "pull"
    /\ Offered(chunk)
    /\ chunk.type = "message_delta"
    /\ Pulled(chunk)
    /\ IF stream_manager.usage = Null
       THEN Except([type |-> "AttributeError", where |-> "translate"], stream_manager)
       ELSE LET sm == [stream_manager EXCEPT !.usage = MessageDeltaUsage(@, chunk)]
            IN  IF message_metadata = Null
                THEN Except([type |-> "KeyError", where |-> "translate"], sm)
                ELSE YieldDelta(sm, MessageDeltaChoiceDeltas(chunk, message_metadata))

\* Mutant: message_stop ends the loop: complete() and the final item at once.
OnMessageStopCompletes(chunk) ==
    /\ pc = "pull"
    /\ Offered(chunk)
    /\ chunk.type = "message_stop"
    /\ Pulled(chunk)
    /\ out' = Append(out, Item(Null, Complete(stream_manager)))
    /\ pc' = "final_yielded"
    /\ UNCHANGED <<stream_manager, message_metadata, raised>>

\* chat.py:252-253
OnMessageStop(chunk) ==
    /\ pc = "pull"
    /\ Offered(chunk)
    /\ chunk.type = "message_stop"
    /\ Pulled(chunk)
    /\ NoYield

\* chat.py:254-255
OnOtherEvent(chunk) ==
    /\ pc = "pull"
    /\ Offered(chunk)
    /\ chunk.type = "ping"
    /\ Pulled(chunk)
    /\ NoYield

\* chat.py:146: the pull itself raises (a transport or provider error).
UpstreamRaises ==
    /\ pc = "pull"
    /\ Except([type |-> "APIError", where |-> "upstream"], stream_manager)
    /\ UNCHANGED <<consumed, script, transcript, self, call, parked, sse, budget_call, chat_args>>

\* chat.py:257-262: the upstream is exhausted; complete() and the final item.
StreamExhausted ==
    /\ pc = "pull"
    /\ Live \/ script = <<>>
    /\ out' = Append(out, Item(Null, Complete(stream_manager)))
    /\ pc' = "final_yielded"
    /\ UNCHANGED <<stream_manager, message_metadata, consumed, raised, script, transcript,
                   self, call, parked, sse, budget_call, chat_args>>

\* chat.py:259: complete() raises.
CompleteRaises ==
    /\ pc = "pull"
    /\ Live \/ script = <<>>
    /\ Except([type |-> "ValueError", where |-> "complete"], stream_manager)
    /\ UNCHANGED <<consumed, script, transcript, self, call, parked, sse, budget_call, chat_args>>

\* The consumer asks for the next item: the generator resumes after its
\* yield (chat.py:200, 227, 250), returns (262) or falls off its end (266).
Resume ==
    /\ pc \in {"yielded", "final_yielded", "error_yielded"}
    /\ pc' = IF pc = "yielded" THEN "pull" ELSE "done"
    /\ UNCHANGED <<stream_manager, message_metadata, out, consumed, raised, script, transcript,
                   self, call, parked, sse, budget_call, chat_args>>

\* generate_response raises: the exception reaches its caller.
Raise(exc) ==
    /\ call' = exc
    /\ pc' = "call_raised"

\* generate_response returns a response that holds no stream.
Return(response) ==
    /\ call' = response
    /\ pc' = "returned"

\* Mutant: no except clause, the exception reaches the caller.
OpenFailureRaises(exc) == Raise([raises |-> exc, message |-> exc])

\* chat.py:124-131: an exception raised inside the try block becomes the
\* status of the response returned; parsed_response is still None.
OpenFailure(exc) ==
    Return(AIModelCallResponse([status |-> CreateErrorStatus(exc), chat_response |-> Null],
                               "forbid"))

\* Mutant: the pending validation is looked at first.
PreconditionValidationFirst(client) ==
    IF client._input_validation_pending
    THEN [raises |-> "ValueError", message |-> "inputs must be validated"]
    ELSE IF ~client._client
    THEN [raises |-> "RuntimeError", message |-> "Client not initialized"]
    ELSE Null

\* chat.py:56-60: the exception the preconditions raise, Null when they hold.
Precondition(client) ==
    IF ~client._client
    THEN [raises |-> "RuntimeError", message |-> "Client not initialized"]
    ELSE IF client._input_validation_pending
    THEN [raises |-> "ValueError", message |-> "inputs must be validated"]
    ELSE Null

\* chat.py:50-131.  The provider call succeeds or raises, and so does
\* parse_response; a non-streaming call is answered with the final Message
\* of the vendor's turn.
GenerateResponse ==
    /\ pc = "call"
    /\ IF Precondition(self) # Null THEN Raise(Precondition(self))
       ELSE LET budget == GetMaxOutputTokens(self.config, self.ai_model)
            IN  IF "raises" \in DOMAIN budget THEN Raise(budget)
                ELSE IF self.config.test_mode
                THEN Return(DummyAIModelResponse(self.config.streaming))
                ELSE \E created \in BOOLEAN :
                        IF ~created THEN OpenFailure("APIError")
                        ELSE IF self.config.streaming
                        THEN \E extra \in ExtraPolicies :
                                LET response ==
                                        AIModelCallResponse(
                                            [stream_generator |-> HandlerGenerator], extra)
                                IN  IF "raises" \in DOMAIN response
                                    THEN OpenFailure(response.raises)
                                    ELSE /\ call' = response
                                         /\ pc' = IF IsSet(StreamGeneratorOf(response))
                                                  THEN "pull" ELSE "returned"
                        ELSE \E parsed \in BOOLEAN :
                                IF ~parsed THEN OpenFailure("ValidationError")
                                ELSE Return(AIModelCallResponse(
                                         [status |-> CreateSuccessStatus,
                                          chat_response |->
                                              ParseResponse(FinalMessage(transcript))],
                                         "forbid"))
    /\ chat_args' =
          IF /\ Precondition(self) = Null
             /\ "raises" \notin DOMAIN GetMaxOutputTokens(self.config, self.ai_model)
          THEN ChatArgs(self.config, GetMaxOutputTokens(self.config, self.ai_model))
          ELSE chat_args
    /\ UNCHANGED <<stream_manager, message_metadata, out, consumed, raised, script,
                   transcript, self, parked, sse, budget_call>>

\* chat.py:138-143
Init ==
    /\ pc = "pull"
    /\ stream_manager = StreamingManagerInit
    /\ message_metadata = Null
    /\ out = <<>>
    /\ consumed = <<>>
    /\ raised = Null
    /\ script = <<>>
    /\ transcript = Null
    /\ self = StreamingClient
    /\ call = Null
    /\ parked = Null
    /\ sse = Null
    /\ budget_call = Null
    /\ chat_args = Null

Next ==
    \/ \E chunk \in AllEvents :
          \/ OnMessageStart(chunk)
          \/ OnContentBlockStart(chunk)
          \/ OnContentBlockDelta(chunk)
          \/ OnContentBlockStop(chunk)
          \/ OnMessageDelta(chunk)
          \/ OnMessageStop(chunk)
          \/ OnOtherEvent(chunk)
    \/ UpstreamRaises
    \/ StreamExhausted
    \/ CompleteRaises
    \/ Resume

Spec == Init /\ [][Next]_vars

\* A replay: the upstream delivers the events of one transcript.
InitReplay ==
    /\ pc = "pull"
    /\ stream_manager = StreamingManagerInit
    /\ message_metadata = Null
    /\ out = <<>>
    /\ consumed = <<>>
    /\ raised = Null
    /\ transcript \in Transcripts
    /\ script = EventsOf(transcript)
    /\ self = StreamingClient
    /\ call = Null
    /\ parked = Null
    /\ sse = Null
    /\ budget_call = Null
    /\ chat_args = Null

NextReplay ==
    \/ \E chunk \in AllEvents :
          \/ OnMessageStart(chunk)
          \/ OnContentBlockStart(chunk)
          \/ OnContentBlockDelta(chunk)
          \/ OnContentBlockStop(chunk)
          \/ OnMessageDelta(chunk)
          \/ OnMessageStop(chunk)
    \/ UpstreamRaises
    \/ StreamExhausted
    \/ CompleteRaises
    \/ Resume

SpecReplay == InitReplay /\ [][NextReplay]_vars

(***************************************************************************)
(* The example scenario of the specification, replayed: message_start      *)
(* (prompt 10), content_block_start (0, text), two text deltas at index 0, *)
(* message_delta (stop reason "stop", 2 output tokens), message_stop.  The *)
(* scenarios replayed vary the order of the two fragments and the seed of  *)
(* output tokens message_start reports.                                    *)
(***************************************************************************)
Scenarios ==
    { [fragments |-> fs, seed_tokens |-> c0] :
        fs \in { <<"Hello", " world">>, <<" world", "Hello">> }, c0 \in Tokens }

ExampleScenario == [fragments |-> <<"Hello", " world">>, seed_tokens |-> 0]

ScenarioEvents(sc) ==
    << [type |-> "message_start",
        message |-> [id |-> "msg_1", model |-> "claude", role |-> "assistant",
                     usage |-> [input_tokens |-> 10, output_tokens |-> sc.seed_tokens]]],
       [type |-> "content_block_start", index |-> 0, content_block |-> [type |-> "text"]],
       [type |-> "content_block_delta", index |-> 0,
        delta |-> [type |-> "text_delta", text |-> sc.fragments[1]]],
       [type |-> "content_block_delta", index |-> 0,
        delta |-> [type |-> "text_delta", text |-> sc.fragments[2]]],
       [type |-> "message_delta",
        delta |-> [stop_reason |-> "stop", stop_sequence |-> None],
        usage |-> [output_tokens |-> 2]],
       [type |-> "message_stop"] >>

ScenarioChunks ==
    UNION { { ScenarioEvents(sc)[k] : k \in 1 .. Len(ScenarioEvents(sc)) } : sc \in Scenarios }

InitExample ==
    /\ pc = "pull"
    /\ stream_manager = StreamingManagerInit
    /\ message_metadata = Null
    /\ out = <<>>
    /\ consumed = <<>>
    /\ raised = Null
    /\ transcript \in Scenarios
    /\ script = ScenarioEvents(transcript)
    /\ self = StreamingClient
    /\ call = Null
    /\ parked = Null
    /\ sse = Null
    /\ budget_call = Null
    /\ chat_args = Null

NextExample ==
    \/ \E chunk \in ScenarioChunks :
          \/ OnMessageStart(chunk)
          \/ OnContentBlockStart(chunk)
          \/ OnContentBlockDelta(chunk)
          \/ OnMessageDelta(chunk)
          \/ OnMessageStop(chunk)
    \/ UpstreamRaises
    \/ StreamExhausted
    \/ CompleteRaises
    \/ Resume

SpecExample == InitExample /\ [][NextExample]_vars

(***************************************************************************)
(* Two streaming calls served by one task.  Each call is one generator     *)
(* object with its own frame; the task runs one of them at a time and may  *)
(* turn to the other wherever the running one awaits (the pull at          *)
(* chat.py:146) or is suspended at a yield.                                *)
(***************************************************************************)

\* The frame of the running call.
Frame ==
    [pc |-> pc, stream_manager |-> stream_manager, message_metadata |-> message_metadata,
     out |-> out, consumed |-> consumed, raised |-> raised, script |-> script,
     transcript |-> transcript]

\* A call that has not pulled its first event.
NewFrame(sc) ==
    [pc |-> "pull", stream_manager |-> StreamingManagerInit, message_metadata |-> Null,
     out |-> <<>>, consumed |-> <<>>, raised |-> Null, script |-> ScenarioEvents(sc),
     transcript |-> sc]

\* Mutant: the aggregator is one object shared by the calls of the client,
\* so a resumed call goes on with the one the other call has been updating.
SharedStreamManager(own, running) == running

\* chat.py:138-140: stream_manager is a local of the generator, built by
\* each call; a resumed call finds the aggregator it left.
OwnStreamManager(own, running) == own

\* The task leaves the running call where it stands and resumes the other.
Switch ==
    /\ parked # Null
    /\ pc' = parked.pc
    /\ stream_manager' = OwnStreamManager(parked.stream_manager, stream_manager)
    /\ message_metadata' = parked.message_metadata
    /\ out' = parked.out
    /\ consumed' = parked.consumed
    /\ raised' = parked.raised
    /\ script' = parked.script
    /\ transcript' = parked.transcript
    /\ parked' = Frame
    /\ UNCHANGED <<self, call, sse, budget_call, chat_args>>

InitTwo ==
    /\ pc = "pull"
    /\ stream_manager = StreamingManagerInit
    /\ message_metadata = Null
    /\ out = <<>>
    /\ consumed = <<>>
    /\ raised = Null
    /\ transcript \in Scenarios
    /\ script = ScenarioEvents(transcript)
    /\ self = StreamingClient
    /\ call = Null
    /\ parked \in { NewFrame(sc) : sc \in Scenarios }
    /\ sse = Null
    /\ budget_call = Null
    /\ chat_args = Null

NextTwo == NextExample \/ Switch

SpecTwo == InitTwo /\ [][NextTwo]_vars

\* The call: generate_response on a client in any state.  A non-streaming
\* call is answered with the final Message of one of the vendor's turns.
InitCall ==
    /\ pc = "call"
    /\ stream_manager = StreamingManagerInit
    /\ message_metadata = Null
    /\ out = <<>>
    /\ consumed = <<>>
    /\ raised = Null
    /\ script = <<>>
    /\ self \in Clients
    /\ transcript \in (IF self.config.streaming THEN {Null} ELSE Messages)
    /\ call = Null
    /\ parked = Null
    /\ sse = Null
    /\ budget_call = Null
    /\ chat_args = Null

NextCall == GenerateResponse

SpecCall == InitCall /\ [][NextCall]_vars

(***************************************************************************)
(* get_max_output_tokens on its own: a call configuration and a model with *)
(* budgets and caps unset, zero or set, below and above one another.       *)
(***************************************************************************)
\* An int | None of a budget or a cap.
OptTokens == {<<>>} \cup { <<n>> : n \in 0 .. MaxBudget }

BudgetConfigs ==
    [streaming : {FALSE}, test_mode : {FALSE}, max_output_tokens : OptTokens,
     reasoning : BOOLEAN, max_reasoning_tokens : OptTokens, options : {EmptyDict}]

BudgetModels ==
    {Null} \cup
    { [settings |-> st] :
        st \in [max_output_tokens : OptTokens, supports_reasoning : BOOLEAN,
                max_output_tokens_reasoning_mode : OptTokens,
                max_reasoning_tokens : OptTokens] }

\* _model_call_config.py:31-68
ResolveBudget ==
    /\ budget_call # Null
    /\ budget_call.result = Null
    /\ budget_call' =
          [budget_call EXCEPT
              !.result = GetMaxOutputTokens(budget_call.config, budget_call.model)]
    /\ UNCHANGED <<pc, stream_manager, message_metadata, out, consumed, raised, script,
                   transcript, self, call, parked, sse, chat_args>>

InitBudget ==
    /\ pc = "done"
    /\ stream_manager = StreamingManagerInit
    /\ message_metadata = Null
    /\ out = <<>>
    /\ consumed = <<>>
    /\ raised = Null
    /\ script = <<>>
    /\ transcript = Null
    /\ self = StreamingClient
    /\ call = Null
    /\ parked = Null
    /\ sse = Null
    /\ budget_call \in [config : BudgetConfigs, model : BudgetModels, result : {Null}]
    /\ chat_args = Null

NextBudget == ResolveBudget

SpecBudget == InitBudget /\ [][NextBudget]_vars

(***************************************************************************)
(* The request of a call: generate_response on a client whose call         *)
(* configuration sets budgets and options and whose model sets caps.       *)
(***************************************************************************)
\* config.options: extra arguments of the provider call, by name.
Options ==
    { EmptyDict, [temperature |-> 1], [max_tokens |-> MaxBudget + 1], [stream |-> TRUE],
      [thinking |-> [type |-> "disabled"]] }

RequestConfigs ==
    [streaming : BOOLEAN, test_mode : BOOLEAN, max_output_tokens : OptTokens,
     reasoning : BOOLEAN, max_reasoning_tokens : OptTokens, options : Options]

RequestModels ==
    {Null} \cup
    { [settings |-> st] :
        st \in [max_output_tokens : {<<>>, <<MaxBudget>>}, supports_reasoning : BOOLEAN,
                max_output_tokens_reasoning_mode : {<<MaxBudget>>},
                max_reasoning_tokens : {<<>>, <<1>>}] }

RequestClients ==
    [_client : BOOLEAN, _input_validation_pending : BOOLEAN, config : RequestConfigs,
     ai_model : RequestModels]

\* The turn the vendor answers a non-streaming call with.
RequestMessage == CHOOSE m \in Messages : Len(m.blocks) = 1 /\ m.blocks[1].type = "text"

InitRequest ==
    /\ pc = "call"
    /\ stream_manager = StreamingManagerInit
    /\ message_metadata = Null
    /\ out = <<>>
    /\ consumed = <<>>
    /\ raised = Null
    /\ script = <<>>
    /\ self \in RequestClients
    /\ transcript = (IF self.config.streaming THEN Null ELSE RequestMessage)
    /\ call = Null
    /\ parked = Null
    /\ sse = Null
    /\ budget_call = Null
    /\ chat_args = Null

NextRequest == GenerateResponse

SpecRequest == InitRequest /\ [][NextRequest]_vars

(***************************************************************************)
(* The wire format at work: a response is serialized by to_sse_format and  *)
(* the frame decoded by parse_sse; frames also arrive from the wire as     *)
(* other producers, or a faulty line, wrote them.                          *)
(***************************************************************************)
\* The responses serialized: a chunk under token_stream and push, an error
\* under error; id left at its default, None, or set; retry unset or set.
SSEDataChunks ==
    [class : {"SSEDataChunk"}, index : Indices,
     content : { <<"a">>, <<"a", ":", " ", "b">>, <<"x", LS, "y">> },
     done : BOOLEAN, metadata : {Null, [dict |-> <<>>]}]

SSEErrorDatas ==
    [class : {"SSEErrorData"}, error_code : SSEErrorCode, message : { <<"boom">> },
     details : {Null}]

SSEResponses ==
    { NewSSEResponse(event, data, id, retry) :
        event \in {"token_stream", "push"}, data \in SSEDataChunks,
        id \in {IdDefault, Null, [str |-> <<"evt_1">>]}, retry \in {<<>>, <<0>>, <<5>>} }
    \cup
    { NewSSEErrorResponse(data, id, retry) :
        data \in SSEErrorDatas,
        id \in {IdDefault, Null, [str |-> <<"evt_1">>]}, retry \in {<<>>, <<0>>, <<5>>} }

\* The frames that arrive from the wire, by what their lines hold.
WireFrames ==
    [event : {"none", "token_stream", "push", "error", "bogus"},
     id : {"none", "evt_1"},
     retry : {"none", "5", "abc"},
     data : {"none", "chunk", "chunk_on_two_lines", "error", "bad_code", "not_json",
             "array", "null", "bad_index", "empty_object"},
     junk : BOOLEAN]

\* The payload of the data lines of a frame, line by line.
WirePayload(kind) ==
    LET chunk == ModelDumpJson([class |-> "SSEDataChunk", index |-> 1, content |-> <<"a">>,
                                done |-> TRUE, metadata |-> Null])
        error == ModelDumpJson([class |-> "SSEErrorData", error_code |-> "external_api_error",
                                message |-> <<"boom">>, details |-> Null])
    IN  CASE kind = "none" -> <<>>
          [] kind = "chunk" -> <<chunk>>
          [] kind = "chunk_on_two_lines" ->
                << SubSeq(chunk, 1, 6), SubSeq(chunk, 7, Len(chunk)) >>
          [] kind = "error" -> <<error>>
          [] kind = "bad_code" ->
                << <<"{">> \o JsonString(<<"error_code">>) \o <<":">>
                      \o JsonString(<<"bogus">>) \o <<"}">> >>
          [] kind = "not_json" -> << <<"{", "oops">> >>
          [] kind = "array" -> << <<"[", "]">> >>
          [] kind = "null" -> << <<"null">> >>
          [] kind = "bad_index" ->
                << <<"{">> \o JsonString(<<"index">>) \o <<":">>
                      \o JsonString(<<"abc">>) \o <<"}">> >>
          [] OTHER -> << <<"{", "}">> >>

\* The text of a frame: its lines, each ended by a line break, and the
\* blank line that ends the frame.
Render(frame) ==
    LET field(name, value) == IF value = "none" THEN <<>>
                              ELSE << <<name, ":", " ", value>> >>
        lines == (IF frame.junk THEN << <<"garbage">>, <<" ">> >> ELSE <<>>)
                    \o field("event", frame.event)
                    \o field("id", frame.id)
                    \o field("retry", frame.retry)
                    \o [k \in 1 .. Len(WirePayload(frame.data)) |->
                           <<"data", ":", " ">> \o WirePayload(frame.data)[k]]
    IN  Join(lines, <<NL>>) \o <<NL, NL>>

\* _sse_response.py:99-125
Serialize ==
    /\ sse # Null
    /\ sse.stage = "response"
    /\ sse' = [sse EXCEPT !.stage = "wire", !.text = ToSSEFormat(sse.response)]
    /\ UNCHANGED <<pc, stream_manager, message_metadata, out, consumed, raised, script,
                   transcript, self, call, parked, budget_call, chat_args>>

\* _sse_response.py:127-230
Deserialize ==
    /\ sse # Null
    /\ sse.stage = "wire"
    /\ sse' = [sse EXCEPT !.stage = "parsed", !.parsed = ParseSSE(sse.text)]
    /\ UNCHANGED <<pc, stream_manager, message_metadata, out, consumed, raised, script,
                   transcript, self, call, parked, budget_call, chat_args>>

InitSSE ==
    /\ pc = "done"
    /\ stream_manager = StreamingManagerInit
    /\ message_metadata = Null
    /\ out = <<>>
    /\ consumed = <<>>
    /\ raised = Null
    /\ script = <<>>
    /\ transcript = Null
    /\ self = StreamingClient
    /\ call = Null
    /\ parked = Null
    /\ sse \in { [stage |-> "response", frame |-> Null, response |-> r, text |-> <<>>,
                  parsed |-> Null] : r \in SSEResponses }
               \cup
               { [stage |-> "wire", frame |-> f, response |-> Null, text |-> Render(f),
                  parsed |-> Null] : f \in WireFrames }
    /\ budget_call = Null
    /\ chat_args = Null

NextSSE == Serialize \/ Deserialize

SpecSSE == InitSSE /\ [][NextSSE]_vars

(***************************************************************************)
(* Vocabulary of the properties.                                           *)
(***************************************************************************)
IsDelta(item) == item.delta # Null /\ item.delta.class = "StreamingChatResponse"
IsError(item) == item.delta # Null /\ item.delta.class = "SSEErrorResponse"
IsFinal(item) == item.final # Null

\* The generator has ended: exhausted, or left by an exception.
Ended == pc \in {"done", "raised"}

\* The one choice delta of a delta item.
ChoiceDeltaOf(item) == item.delta.data.choice_deltas[1]

\* The k-th consumed event raised while it was translated.
FailedAt(k) == raised # Null /\ raised.where = "translate" /\ k = Len(consumed)

\* The number of items out held when the event after the k-th was pulled
\* (for the last event: the delta items out holds now).
AtAfter(k) ==
    IF k < Len(consumed) THEN consumed[k + 1].at
    ELSE Cardinality({j \in 1 .. Len(out) : IsDelta(out[j])})

\* The events that make the handler yield a frame.
Triggers(chunk) ==
    \/ chunk.type \in {"content_block_delta", "message_delta"}
    \/ chunk.type = "content_block_start" /\ chunk.content_block.type = "redacted_thinking"

RecognizedDeltas == {"text_delta", "thinking_delta", "signature_delta"}

\* The text fragments of the text_delta events consumed for index i, in
\* arrival order.
RECURSIVE TextFragments(_, _)
TextFragments(cs, i) ==
    IF cs = <<>> THEN <<>>
    ELSE LET chunk == Head(cs).chunk
         IN  (IF /\ chunk.type = "content_block_delta"
                 /\ chunk.index = i
                 /\ chunk.delta.type = "text_delta"
              THEN <<chunk.delta.text>> ELSE <<>>) \o TextFragments(Tail(cs), i)

\* Every content delta emitted so far for index i is a text delta.
OnlyTextAt(i) ==
    \A k \in 1 .. Len(out) :
        IsDelta(out[k]) =>
            \A n \in 1 .. Len(ChoiceDeltaOf(out[k]).content_deltas) :
                ChoiceDeltaOf(out[k]).content_deltas[n].index = i
                    => ChoiceDeltaOf(out[k]).content_deltas[n].type = "text"

\* The final response the run produced, when it has.
HasFinal == out # <<>> /\ IsFinal(out[Len(out)])
FinalResponse == out[Len(out)].final

(***************************************************************************)
(* C1. Terminal-frame exclusivity: when a run of the streaming handler has *)
(* ended, whatever the upstream delivered and wherever an exception was    *)
(* raised, the last item produced is an error frame or the final-response  *)
(* frame, exactly one of the two, and no earlier item is either.           *)
(***************************************************************************)
C1_TerminalFrameExclusivity ==
    Ended =>
        /\ out # <<>>
        /\ IsError(out[Len(out)]) # IsFinal(out[Len(out)])
        /\ \A k \in 1 .. Len(out) - 1 : ~IsError(out[k]) /\ ~IsFinal(out[k])

\* A run that ended with an error frame after delta frames, the exception
\* raised while an event was translated.
C1_Witness ==
    /\ pc = "done"
    /\ Len(out) >= 2
    /\ IsError(out[Len(out)])
    /\ raised # Null /\ raised.where = "translate"

(***************************************************************************)
(* C2. Success-path frame protocol: when the upstream was consumed to      *)
(* exhaustion without an exception, the produced sequence is zero or more  *)
(* items (delta, null) whose delta is a StreamingChatResponse, followed by *)
(* exactly one item (null, final) carrying the result of complete();       *)
(* nothing follows it and no earlier item carries a final response.        *)
(***************************************************************************)
C2_SuccessPathProtocol ==
    (pc = "done" /\ raised = Null) =>
        /\ out # <<>>
        /\ \A k \in 1 .. Len(out) - 1 : IsDelta(out[k]) /\ out[k].final = Null
        /\ out[Len(out)].delta = Null
        /\ out[Len(out)].final = Complete(stream_manager)

\* A successful run that produced two delta frames and the final item.
C2_Witness ==
    /\ pc = "done" /\ raised = Null
    /\ Len(out) = 3
    /\ IsFinal(out[3])

(***************************************************************************)
(* C3. Error termination: once an exception has been raised while the      *)
(* upstream is consumed (by the pull, while an event is translated, or by  *)
(* complete()), the produced sequence ends with exactly one error item,    *)
(* whose code is server_error, external_api_error or client_decode_error;  *)
(* before it there are delta items only, no final-response item is ever    *)
(* produced, and the exception does not reach the consumer.                *)
(***************************************************************************)
C3_ErrorTermination ==
    raised # Null =>
        /\ pc \in {"error_yielded", "done"}
        /\ out # <<>>
        /\ IsError(out[Len(out)])
        /\ out[Len(out)].final = Null
        /\ out[Len(out)].delta.data.error_code \in SSEErrorCode
        /\ \A k \in 1 .. Len(out) - 1 : IsDelta(out[k]) /\ out[k].final = Null

\* complete() raised after a delta frame, and the consumer has drained the
\* sequence.
C3_Witness ==
    /\ pc = "done"
    /\ raised # Null /\ raised.where = "complete"
    /\ Len(out) >= 2

(***************************************************************************)
(* C4. Streaming/non-streaming equivalence: replaying a transcript's       *)
(* events through the streaming handler and calling complete() yields a    *)
(* response with the same choices (content items, indices, kinds,          *)
(* finish_reason, stop_sequence) and the same usage as parse_response      *)
(* builds from the transcript's final message.                             *)
(***************************************************************************)
C4_StreamingEqualsParse ==
    (~Live /\ pc = "done" /\ raised = Null) =>
        LET parsed == ParseResponse(FinalMessage(transcript))
        IN  /\ FinalResponse.choices = parsed.choices
            /\ FinalResponse.usage = parsed.usage

(***************************************************************************)
(* C5. Merge of text fragments: in the response complete() returns, every  *)
(* index for which text fragments were passed to update() has a content    *)
(* item, a Text item when only text deltas were passed for the index, and  *)
(* the text of every Text content item is the concatenation, in arrival    *)
(* order, of the text fragments passed for its index.                      *)
(***************************************************************************)
C5_TextMerge ==
    HasFinal =>
        /\ \A i \in Indices :
              TextFragments(consumed, i) # <<>> =>
                  \E c \in 1 .. Len(FinalResponse.choices) :
                      \E n \in 1 .. Len(FinalResponse.choices[c].contents) :
                          /\ FinalResponse.choices[c].contents[n].index = i
                          /\ OnlyTextAt(i) => FinalResponse.choices[c].contents[n].type = "text"
        /\ \A c \in 1 .. Len(FinalResponse.choices) :
              \A n \in 1 .. Len(FinalResponse.choices[c].contents) :
                  LET item == FinalResponse.choices[c].contents[n]
                  IN  item.type = "text" =>
                          item.text = Concat(TextFragments(consumed, item.index))

\* The final response holds the text "ab" or "ba" merged from two fragments.
C5_Witness ==
    /\ HasFinal
    /\ \E i \in Indices :
          /\ Len(TextFragments(consumed, i)) = 2
          /\ TextFragments(consumed, i)[1] # TextFragments(consumed, i)[2]
          /\ \E n \in 1 .. Len(FinalResponse.choices[1].contents) :
                /\ FinalResponse.choices[1].contents[n].type = "text"
                /\ FinalResponse.choices[1].contents[n].index = i

\* Every event that makes the handler yield has its frame at the position
\* the produced sequence had reached when the event was pulled, and every
\* other event adds no frame.
FramesInEventOrder ==
    \A k \in 1 .. Len(consumed) :
        IF Triggers(consumed[k].chunk) /\ ~FailedAt(k)
        THEN AtAfter(k) = consumed[k].at + 1 /\ IsDelta(out[consumed[k].at + 1])
        ELSE AtAfter(k) = consumed[k].at

(***************************************************************************)
(* C6. Order preservation: the emitted delta frames are in the order of    *)
(* the events that triggered them, none doubled, none merged; the frame of *)
(* a content event carries one content delta whose index is the event's,   *)
(* so that the indices of the emitted deltas follow the event order, and   *)
(* the frame of a message_delta carries its stop reason, at the position   *)
(* of that event.                                                          *)
(***************************************************************************)
C6_OrderPreservation ==
    /\ FramesInEventOrder
    /\ \A k \in 1 .. Len(consumed) :
          LET c == consumed[k]
          IN  (Triggers(c.chunk) /\ ~FailedAt(k)) =>
                  IF c.chunk.type = "message_delta"
                  THEN /\ ChoiceDeltaOf(out[c.at + 1]).content_deltas = <<>>
                       /\ ChoiceDeltaOf(out[c.at + 1]).finish_reason
                              = c.chunk.delta.stop_reason
                  ELSE /\ Len(ChoiceDeltaOf(out[c.at + 1]).content_deltas) = 1
                       /\ ChoiceDeltaOf(out[c.at + 1]).finish_reason = None
                       /\ ChoiceDeltaOf(out[c.at + 1]).content_deltas[1].index
                              = c.chunk.index

(***************************************************************************)
(* C7. Message-Delta always emits: every message_delta event the handler   *)
(* processes, whatever preceded it (a message_start without usage as       *)
(* well), results in one delta frame carrying the event's stop reason and  *)
(* stop sequence, with no content deltas.                                  *)
(***************************************************************************)
C7_MessageDeltaAlwaysEmits ==
    \A k \in 1 .. Len(consumed) :
        LET c == consumed[k]
        IN  c.chunk.type = "message_delta" =>
                /\ Len(out) > c.at
                /\ IsDelta(out[c.at + 1])
                /\ ChoiceDeltaOf(out[c.at + 1]).finish_reason = c.chunk.delta.stop_reason
                /\ ChoiceDeltaOf(out[c.at + 1]).stop_sequence = c.chunk.delta.stop_sequence
                /\ ChoiceDeltaOf(out[c.at + 1]).content_deltas = <<>>

(***************************************************************************)
(* C8. Usage total invariant: whenever the aggregator's usage is known     *)
(* (after message_start and after every later event), and in the usage of  *)
(* the response parse_response builds from the final message,              *)
(* total_tokens = prompt_tokens + completion_tokens.                       *)
(***************************************************************************)
C8_UsageTotal ==
    /\ stream_manager.usage # Null =>
           stream_manager.usage.total_tokens
               = stream_manager.usage.prompt_tokens + stream_manager.usage.completion_tokens
    /\ ~Live =>
           LET usage == ParseResponse(FinalMessage(transcript)).usage
           IN  usage.total_tokens = usage.prompt_tokens + usage.completion_tokens

\* A message_delta has added output tokens to a usage seeded by
\* message_start.
C8_Witness ==
    /\ ~Live
    /\ stream_manager.usage # Null
    /\ stream_manager.usage.completion_tokens = 2 * MaxTokens
    /\ stream_manager.usage.total_tokens = 3 * MaxTokens

(***************************************************************************)
(* C9. Usage monotonicity: from one processed event to the next, the       *)
(* aggregator's completion_tokens never decreases.                         *)
(***************************************************************************)
C9_CompletionTokensMonotone ==
    [][(stream_manager.usage # Null /\ stream_manager'.usage # Null) =>
           stream_manager'.usage.completion_tokens >= stream_manager.usage.completion_tokens]_vars

\* Two message_delta events have been processed after a message_start that
\* seeded the completion tokens.
C9_Witness ==
    /\ Len(consumed) = 3
    /\ consumed[2].chunk.type = "message_delta"
    /\ consumed[3].chunk.type = "message_delta"
    /\ consumed[3].chunk.usage.output_tokens = 0
    /\ stream_manager.usage # Null
    /\ stream_manager.usage.completion_tokens = 2 * MaxTokens

(***************************************************************************)
(* C10. Unknown delta sub-kind resilience: a content_block_delta whose     *)
(* delta is of no recognized kind raises nothing and does not end the      *)
(* stream: it yields one delta frame whose single content delta is the     *)
(* Unknown variant carrying the delta unchanged, and the handler goes on   *)
(* to the next event.                                                      *)
(***************************************************************************)
C10_UnknownDeltaResilience ==
    \A k \in 1 .. Len(consumed) :
        LET c == consumed[k]
        IN  (c.chunk.type = "content_block_delta"
                /\ c.chunk.delta.type \notin RecognizedDeltas) =>
                /\ ~FailedAt(k)
                /\ Len(out) > c.at
                /\ IsDelta(out[c.at + 1])
                /\ Len(ChoiceDeltaOf(out[c.at + 1]).content_deltas) = 1
                /\ ChoiceDeltaOf(out[c.at + 1]).content_deltas[1].type = "unknown"
                /\ ChoiceDeltaOf(out[c.at + 1]).content_deltas[1].raw = c.chunk.delta
                /\ (k = Len(consumed) /\ raised = Null) => pc \in {"yielded", "pull", "final_yielded", "done"}

\* A text delta was processed, and its frame emitted, after an unknown
\* delta.
C10_Witness ==
    /\ Len(consumed) = 3 /\ Len(out) = 2
    /\ consumed[2].chunk.type = "content_block_delta"
    /\ consumed[2].chunk.delta.type \notin RecognizedDeltas
    /\ consumed[3].chunk.type = "content_block_delta"
    /\ consumed[3].chunk.delta.type = "text_delta"
    /\ IsDelta(out[2])
    /\ ChoiceDeltaOf(out[2]).content_deltas[1].type = "text"

\* The content delta the frame of the k-th consumed event carries.
ContentDeltaAt(k) == ChoiceDeltaOf(out[consumed[k].at + 1]).content_deltas[1]

\* The k-th consumed event is a content_block_delta whose frame was emitted.
DeltaEventAt(k) == consumed[k].chunk.type = "content_block_delta" /\ ~FailedAt(k)

(***************************************************************************)
(* C11. Block-Delta dispatch: the frame of every content_block_delta event *)
(* carries one content delta of the variant matching the delta's kind, at  *)
(* the event's index: text_delta -> a Text delta with the fragment as      *)
(* text_delta; thinking_delta -> a Reasoning delta with the fragment as    *)
(* thinking_text_delta; signature_delta -> a Reasoning delta with empty    *)
(* thinking text and the signature in metadata; input_json_delta -> a      *)
(* ToolCall delta carrying the input fragment.                             *)
(***************************************************************************)
C11_BlockDeltaDispatch ==
    \A k \in 1 .. Len(consumed) :
        DeltaEventAt(k) =>
            LET delta == consumed[k].chunk.delta
                cd == ContentDeltaAt(k)
            IN  /\ Len(ChoiceDeltaOf(out[consumed[k].at + 1]).content_deltas) = 1
                /\ cd.index = consumed[k].chunk.index
                /\ CASE delta.type = "text_delta" ->
                            cd.type = "text" /\ cd.text_delta = delta.text
                     [] delta.type = "thinking_delta" ->
                            /\ cd.type = "reasoning"
                            /\ cd.thinking_text_delta = delta.thinking
                     [] delta.type = "signature_delta" ->
                            /\ cd.type = "reasoning"
                            /\ cd.thinking_text_delta = ""
                            /\ cd.metadata = [signature |-> delta.signature]
                     [] delta.type = "input_json_delta" ->
                            /\ cd.type = "tool_call"
                            /\ \E f \in DOMAIN cd : cd[f] = delta.partial_json
                     [] OTHER -> FALSE

\* The part of the dispatch the code does implement: the three kinds it
\* tests for, each at the event's index.
RecognizedDeltaDispatch ==
    \A k \in 1 .. Len(consumed) :
        (DeltaEventAt(k) /\ consumed[k].chunk.delta.type \in RecognizedDeltas) =>
            LET delta == consumed[k].chunk.delta
                cd == ContentDeltaAt(k)
            IN  /\ cd.index = consumed[k].chunk.index
                /\ cd.role = message_metadata.role
                /\ CASE delta.type = "text_delta" ->
                            cd.type = "text" /\ cd.text_delta = delta.text
                     [] delta.type = "thinking_delta" ->
                            /\ cd.type = "reasoning"
                            /\ cd.thinking_text_delta = delta.thinking
                            /\ cd.metadata = <<>>
                     [] OTHER ->
                            /\ cd.type = "reasoning"
                            /\ cd.thinking_text_delta = ""
                            /\ cd.metadata = [signature |-> delta.signature]

\* The events whose frame carries a content delta.
CarriesContent(chunk) ==
    \/ chunk.type = "content_block_delta"
    \/ chunk.type = "content_block_start" /\ chunk.content_block.type = "redacted_thinking"

\* The indices of the content events whose frames were emitted.
EventIndices ==
    { consumed[k].chunk.index :
        k \in { j \in 1 .. Len(consumed) : CarriesContent(consumed[j].chunk) /\ ~FailedAt(j) } }

(***************************************************************************)
(* C12. Index preservation: the index of every emitted content delta, of   *)
(* any kind, Unknown included, is the index of the event that triggered    *)
(* it; and the content items of the final response carry exactly the       *)
(* indices of those events, each once, in ascending order.                 *)
(***************************************************************************)
C12_IndexPreservation ==
    /\ \A k \in 1 .. Len(consumed) :
          (CarriesContent(consumed[k].chunk) /\ ~FailedAt(k)) =>
              ContentDeltaAt(k).index = consumed[k].chunk.index
    /\ HasFinal =>
          \A c \in 1 .. Len(FinalResponse.choices) :
              LET contents == FinalResponse.choices[c].contents
              IN  /\ { contents[n].index : n \in 1 .. Len(contents) } = EventIndices
                  /\ \A m, n \in 1 .. Len(contents) :
                        m < n => contents[m].index < contents[n].index

\* The indices are preserved for every delta of a kind the code tests for,
\* and for a redacted_thinking block.
RecognizedIndexPreservation ==
    \A k \in 1 .. Len(consumed) :
        ( /\ CarriesContent(consumed[k].chunk)
          /\ ~FailedAt(k)
          /\ consumed[k].chunk.type = "content_block_delta"
                => consumed[k].chunk.delta.type \in RecognizedDeltas ) =>
            ContentDeltaAt(k).index = consumed[k].chunk.index

(***************************************************************************)
(* C13. Block-Start policy: a content_block_start of a redacted_thinking   *)
(* block emits at once exactly one frame with one choice delta carrying    *)
(* one full reasoning item at the event's index, the redacted payload in   *)
(* its metadata; a content_block_start of a text or thinking block emits   *)
(* no frame; a content_block_start of any other kind emits no frame and    *)
(* raises nothing.                                                         *)
(***************************************************************************)
C13_BlockStartPolicy ==
    \A k \in 1 .. Len(consumed) :
        LET c == consumed[k]
        IN  c.chunk.type = "content_block_start" =>
                /\ ~FailedAt(k)
                /\ IF c.chunk.content_block.type = "redacted_thinking"
                   THEN /\ AtAfter(k) = c.at + 1
                        /\ IsDelta(out[c.at + 1])
                        /\ out[c.at + 1].final = Null
                        /\ Len(out[c.at + 1].delta.data.choice_deltas) = 1
                        /\ ChoiceDeltaOf(out[c.at + 1]).finish_reason = None
                        /\ ChoiceDeltaOf(out[c.at + 1]).content_deltas
                              = << [type |-> "reasoning", index |-> c.chunk.index,
                                    role |-> message_metadata.role,
                                    thinking_text |-> None,
                                    metadata |-> [redacted_thinking_data
                                                    |-> c.chunk.content_block.data]] >>
                   ELSE /\ AtAfter(k) = c.at
                        /\ k = Len(consumed) =>
                              (pc # "yielded" /\ (raised = Null => Len(out) <= c.at + 1))

\* A redacted_thinking block at index 1 has emitted its frame, and the start
\* of a tool_use block after it has emitted none.
C13_Witness ==
    /\ Len(consumed) = 3 /\ Len(out) = 1 /\ pc = "pull" /\ raised = Null
    /\ consumed[2].chunk.type = "content_block_start"
    /\ consumed[2].chunk.content_block.type = "redacted_thinking"
    /\ consumed[2].chunk.index = 1
    /\ consumed[3].chunk.type = "content_block_start"
    /\ consumed[3].chunk.content_block.type = "tool_use"

\* The choice deltas of the delta frames among the first n items produced.
RECURSIVE ChoiceDeltasOf(_, _)
ChoiceDeltasOf(items, n) ==
    IF n = 0 THEN <<>>
    ELSE ChoiceDeltasOf(items, n - 1)
            \o (IF IsDelta(items[n]) THEN items[n].delta.data.choice_deltas ELSE <<>>)

\* What an aggregator holds that was given exactly the deltas of the frames
\* produced so far.
Accumulated == MergeChoiceDeltas(<<>>, ChoiceDeltasOf(out, Len(out)))

\* A message_stop was consumed before the k-th event.
AfterMessageStop(k) == \E j \in 1 .. k - 1 : consumed[j].chunk.type = "message_stop"

(***************************************************************************)
(* C14. End of stream is the upstream's exhaustion, not message_stop: the  *)
(* step that processes a message_stop emits nothing, leaves the aggregator *)
(* alone and returns to the pull; the final-response item is appended only *)
(* by a step that consumes no event, taken at the pull once the upstream   *)
(* has nothing more; and the events that arrive after a message_stop still *)
(* get their frames and are merged, no final item standing before them.    *)
(***************************************************************************)
C14_EndIsExhaustion ==
    /\ [](\A k \in 1 .. Len(consumed) :
            /\ consumed[k].chunk.type = "message_stop" =>
                  ~FailedAt(k) /\ AtAfter(k) = consumed[k].at
            /\ \A j \in 1 .. consumed[k].at : IsDelta(out[j])
            /\ (AfterMessageStop(k) /\ Triggers(consumed[k].chunk) /\ ~FailedAt(k)) =>
                  /\ IsDelta(out[consumed[k].at + 1])
                  /\ stream_manager.choices = Accumulated)
    /\ [][ /\ ( /\ Len(consumed') > Len(consumed)
                /\ consumed'[Len(consumed')].chunk.type = "message_stop" ) =>
                  (out' = out /\ stream_manager' = stream_manager /\ pc' = "pull")
           /\ (Len(out') > Len(out) /\ IsFinal(out'[Len(out')])) =>
                  /\ consumed' = consumed
                  /\ pc = "pull"
                  /\ Live \/ script = <<>>
                  /\ out'[Len(out')].final = Complete(stream_manager) ]_vars

\* A text delta that arrived after a message_stop is part of the final
\* response.
C14_Witness ==
    /\ Len(consumed) = 3
    /\ consumed[2].chunk.type = "message_stop"
    /\ consumed[3].chunk.type = "content_block_delta"
    /\ consumed[3].chunk.delta.type = "text_delta"
    /\ Len(out) = 2 /\ IsDelta(out[1]) /\ IsFinal(out[2])
    /\ Len(FinalResponse.choices) = 1
    /\ FinalResponse.choices[1].contents[1].text = consumed[3].chunk.delta.text

(***************************************************************************)
(* C15. Stream-Start handling: once the message_start event is processed,  *)
(* the per-call context holds its message id, model and role and the       *)
(* choice index 0; the aggregator's usage is seeded with the event's input *)
(* tokens as prompt tokens and its output tokens as completion tokens; and *)
(* the event has emitted no frame.                                         *)
(***************************************************************************)
C15_StreamStart ==
    consumed # <<>> =>
        LET message == consumed[1].chunk.message
        IN  /\ consumed[1].chunk.type = "message_start"
            /\ message_metadata = [id |-> message.id, model |-> message.model,
                                   role |-> message.role, index |-> 0]
            /\ consumed[1].at = 0 /\ AtAfter(1) = 0
            /\ ~FailedAt(1)
            /\ message.usage # Null =>
                  /\ stream_manager.usage # Null
                  /\ stream_manager.usage.prompt_tokens = message.usage.input_tokens
                  /\ Len(consumed) = 1 =>
                        stream_manager.usage.completion_tokens = message.usage.output_tokens
            /\ Len(consumed) = 1 => (pc # "yielded" /\ stream_manager.choices = <<>>)

\* A message_start carrying input tokens and a nonzero seed of output tokens
\* has just been processed.
C15_Witness ==
    /\ Len(consumed) = 1 /\ pc = "pull" /\ out = <<>>
    /\ consumed[1].chunk.message.usage # Null
    /\ consumed[1].chunk.message.usage.input_tokens = MaxTokens
    /\ consumed[1].chunk.message.usage.output_tokens = MaxTokens
    /\ stream_manager.usage.completion_tokens = MaxTokens

\* A delta frame carrying one text delta at index 0.
TextFrame(text) ==
    [delta |-> [class |-> "StreamingChatResponse", id |-> "msg_1",
                data |-> [choice_deltas |->
                    << [index |-> 0,
                        content_deltas |-> << [type |-> "text", index |-> 0,
                                               role |-> "assistant", text_delta |-> text] >>,
                        finish_reason |-> None, stop_sequence |-> None,
                        metadata |-> Null] >>]],
     final |-> Null]

\* The sequence the example scenario is expected to produce.
ExampleExpected ==
    << TextFrame("Hello"),
       TextFrame(" world"),
       [delta |-> [class |-> "StreamingChatResponse", id |-> "msg_1",
                   data |-> [choice_deltas |->
                       << [index |-> 0, finish_reason |-> "stop", stop_sequence |-> None,
                           content_deltas |-> <<>>, metadata |-> <<>>] >>]],
        final |-> Null],
       [delta |-> Null,
        final |-> [usage |-> [prompt_tokens |-> 10, completion_tokens |-> 2,
                              total_tokens |-> 12],
                   choices |-> << [index |-> 0, finish_reason |-> "stop",
                                   stop_sequence |-> None,
                                   contents |-> << [type |-> "text", index |-> 0,
                                                    role |-> "assistant",
                                                    text |-> "Hello world"] >>] >>,
                   metadata |-> [streaming |-> TRUE]]] >>

(***************************************************************************)
(* C16. Example scenario: replaying message_start (prompt 10),             *)
(* content_block_start (0, text), the text deltas "Hello" and " world" at  *)
(* index 0, message_delta (stop reason "stop", 2 output tokens) and        *)
(* message_stop produces, item after item and nothing else, a text-delta   *)
(* frame "Hello", a text-delta frame " world", one finish frame and one    *)
(* final item whose choice 0 holds the text "Hello world" and whose usage  *)
(* is prompt 10, completion 2, total 12.                                   *)
(***************************************************************************)
C16_ExampleScenario ==
    (transcript = ExampleScenario /\ raised = Null) =>
        /\ Len(out) <= Len(ExampleExpected)
        /\ \A k \in 1 .. Len(out) : out[k] = ExampleExpected[k]
        /\ pc = "done" => out = ExampleExpected /\ script = <<>>

\* The example scenario has run to its end.
C16_Witness ==
    /\ transcript = ExampleScenario
    /\ pc = "done" /\ raised = Null
    /\ Len(consumed) = 6 /\ Len(out) = 4
    /\ FinalResponse.choices[1].contents[1].text = "Hello world"

\* The last value other than None the choice deltas ds carry in field f
\* ("finish_reason" or "stop_sequence"); None when there is none.
RECURSIVE LastPresent(_, _)
LastPresent(ds, f) ==
    IF ds = <<>> THEN None
    ELSE IF ds[Len(ds)][f] # None THEN ds[Len(ds)][f]
    ELSE LastPresent(SubSeq(ds, 1, Len(ds) - 1), f)

\* The last value other than None the first n consumed events carry in
\* field f of a message_delta ("stop_reason" or "stop_sequence").
RECURSIVE LastStop(_, _)
LastStop(n, f) ==
    IF n = 0 THEN None
    ELSE IF /\ consumed[n].chunk.type = "message_delta"
            /\ ~FailedAt(n)
            /\ consumed[n].chunk.delta[f] # None
         THEN consumed[n].chunk.delta[f]
         ELSE LastStop(n - 1, f)

(***************************************************************************)
(* C17. Finish-reason latch: the finish_reason and the stop_sequence of    *)
(* the choice the aggregator holds, and of the choice in the response      *)
(* complete() returns, are the last values other than None carried by a    *)
(* choice delta passed to update(), which are the last stop reason and     *)
(* stop sequence other than None of the message_delta events; a later      *)
(* choice delta without them (a content delta, a message_delta whose stop  *)
(* reason is None) clears nothing.                                         *)
(***************************************************************************)
C17_FinishReasonLatch ==
    LET passed == ChoiceDeltasOf(out, Len(out))
    IN  /\ \A i \in DOMAIN stream_manager.choices :
              /\ stream_manager.choices[i].finish_reason = LastPresent(passed, "finish_reason")
              /\ stream_manager.choices[i].stop_sequence = LastPresent(passed, "stop_sequence")
        /\ LastPresent(passed, "finish_reason") = LastStop(Len(consumed), "stop_reason")
        /\ LastPresent(passed, "stop_sequence") = LastStop(Len(consumed), "stop_sequence")
        /\ HasFinal =>
              \A c \in 1 .. Len(FinalResponse.choices) :
                  /\ FinalResponse.choices[c].finish_reason
                        = LastStop(Len(consumed), "stop_reason")
                  /\ FinalResponse.choices[c].stop_sequence
                        = LastStop(Len(consumed), "stop_sequence")

\* A message_delta carrying a stop reason and a stop sequence was followed
\* by one carrying neither, and the final response holds the earlier values.
C17_Witness ==
    /\ HasFinal
    /\ Len(consumed) = 3 /\ Len(out) = 3
    /\ consumed[2].chunk.type = "message_delta"
    /\ consumed[2].chunk.delta.stop_reason = "stop_sequence"
    /\ consumed[3].chunk.type = "message_delta"
    /\ consumed[3].chunk.delta.stop_reason = None
    /\ FinalResponse.choices[1].finish_reason = "stop_sequence"
    /\ FinalResponse.choices[1].stop_sequence = "STOP"

\* A response is well-formed: flagged streaming, its choices in ascending
\* order of index, each choice's content items in ascending order of index,
\* each index once, every item of a canonical kind.
WellFormed(response) ==
    /\ response.metadata.streaming
    /\ \A m, n \in 1 .. Len(response.choices) :
          m < n => response.choices[m].index < response.choices[n].index
    /\ \A c \in 1 .. Len(response.choices) :
          LET contents == response.choices[c].contents
          IN  /\ \A m, n \in 1 .. Len(contents) :
                    m < n => contents[m].index < contents[n].index
              /\ \A n \in 1 .. Len(contents) :
                    contents[n].type \in {"text", "reasoning", "tool_call", "unknown"}

(***************************************************************************)
(* C18. Accumulate-and-forward in one step: whenever a delta frame has     *)
(* been handed to the consumer, the aggregator already holds it: at every  *)
(* moment the aggregator's choices are exactly what merging the choice     *)
(* deltas of the frames delivered so far gives, the frame of an event      *)
(* being the echo of the deltas merged for it; and complete(), called at   *)
(* that moment, returns a well-formed response of exactly these deltas.    *)
(***************************************************************************)
C18_AccumulateAndForward ==
    /\ stream_manager.choices = Accumulated
    /\ pc = "yielded" =>
          /\ IsDelta(out[Len(out)])
          /\ consumed[Len(consumed)].at = Len(out) - 1
          /\ stream_manager.choices
                = MergeChoiceDeltas(MergeChoiceDeltas(<<>>, ChoiceDeltasOf(out, Len(out) - 1)),
                                    out[Len(out)].delta.data.choice_deltas)
    /\ WellFormed(Complete(stream_manager))
    /\ Complete(stream_manager).choices
          = Complete([stream_manager EXCEPT !.choices = Accumulated]).choices
    /\ Complete(stream_manager).usage = stream_manager.usage

\* A second content frame has just been handed over, before the upstream
\* ended, and the aggregator holds the items of both.
C18_Witness ==
    /\ pc = "yielded"
    /\ Len(out) = 2
    /\ Len(Complete(stream_manager).choices) = 1
    /\ Len(Complete(stream_manager).choices[1].contents) = 2

\* The call is a streaming call that got as far as the provider.
StreamingCall ==
    /\ self._client /\ ~self._input_validation_pending
    /\ self.config.streaming /\ ~self.config.test_mode

\* The provider call that opens the stream failed.
OpenFailed ==
    /\ StreamingCall
    /\ "status" \in DOMAIN call
    /\ call.status = CreateErrorStatus("APIError")

\* The first pull from the stream raised.
FirstPullFailed ==
    StreamingCall /\ raised # Null /\ raised.where = "upstream" /\ consumed = <<>>

\* The produced sequence is one error frame.
OneErrorFrame == Len(out) = 1 /\ IsError(out[1]) /\ out[1].final = Null

(***************************************************************************)
(* C19. Fatal upstream failure is reported as an error frame: when a       *)
(* streaming call can obtain no event from the upstream (the provider call *)
(* that opens the stream fails, or the first pull from the stream raises), *)
(* the caller holds a stream whose produced sequence is exactly one error  *)
(* frame, the terminal one.                                                *)
(***************************************************************************)
C19_FatalUpstreamFailure ==
    (OpenFailed \/ FirstPullFailed) =>
        /\ IsSet(StreamGeneratorOf(call))
        /\ OneErrorFrame

\* The half of it the handler's except clause gives: a first pull that
\* raises ends the stream with one error frame.
FirstPullFailureReported == FirstPullFailed => OneErrorFrame

(***************************************************************************)
(* C20. One event at a time: a step pulls at most one upstream event, and  *)
(* only at the pull, with every item produced so far already taken by the  *)
(* consumer; the step that pulls an event also translates it, merges it    *)
(* and hands its frame over, after which the handler stands suspended at   *)
(* the yield; and while a frame waits for the consumer nothing is pulled,  *)
(* merged or produced: the only step is the consumer's asking for the next *)
(* item, which takes the handler back to the pull.                         *)
(***************************************************************************)
C20_OneEventAtATime ==
    /\ [](/\ FramesInEventOrder
          /\ pc = "pull" => (raised = Null /\ \A j \in 1 .. Len(out) : IsDelta(out[j]))
          /\ pc = "yielded" =>
                /\ consumed # <<>>
                /\ consumed[Len(consumed)].at = Len(out) - 1
                /\ Triggers(consumed[Len(consumed)].chunk))
    /\ [][ /\ consumed' # consumed =>
                /\ pc = "pull"
                /\ Len(consumed') = Len(consumed) + 1
                /\ SubSeq(consumed', 1, Len(consumed)) = consumed
                /\ consumed'[Len(consumed')].at = Len(out)
                /\ Len(out') <= Len(out) + 1
           /\ (Len(out') > Len(out) /\ IsDelta(out'[Len(out')])) =>
                /\ consumed' # consumed
                /\ pc' = "yielded"
                /\ stream_manager'.choices
                      = MergeChoiceDeltas(stream_manager.choices,
                                          out'[Len(out')].delta.data.choice_deltas)
           /\ pc = "yielded" =>
                /\ pc' = "pull"
                /\ UNCHANGED <<consumed, out, stream_manager, message_metadata>> ]_vars

\* The frame of a second content event waits for the consumer, the first
\* having been taken before the second event was pulled.
C20_Witness ==
    /\ pc = "yielded"
    /\ Len(consumed) = 3 /\ Len(out) = 2
    /\ consumed[2].at = 0 /\ consumed[3].at = 1

(***************************************************************************)
(* C21. Per-call aggregator isolation: each streaming call owns its own    *)
(* aggregator and per-call context; when the event processing of two calls *)
(* is interleaved in any order, the frames each call has emitted, its      *)
(* usage and its final response are those the call produces when it runs   *)
(* alone on the events it has processed.                                   *)
(***************************************************************************)

\* What a call running alone makes of one more event (chat.py:149-255).
AloneStep(st, chunk) ==
    LET md == st.message_metadata
        yield(sm, cds) ==
            [st EXCEPT !.stream_manager = Update(sm, cds),
                       !.frames = Append(@, StreamingChatResponse(md.id, UpdateEnvelope(cds)))]
    IN  CASE chunk.type = "message_start" ->
               [st EXCEPT !.message_metadata = MessageMetadata(chunk.message),
                          !.stream_manager =
                              IF chunk.message.usage # Null
                              THEN UpdateUsage(@, StartUsage(chunk.message.usage))
                              ELSE @]
          [] chunk.type = "content_block_start"
             /\ chunk.content_block.type = "redacted_thinking" ->
               yield(st.stream_manager, RedactedChoiceDeltas(chunk, md))
          [] chunk.type = "content_block_delta" ->
               yield(st.stream_manager, ContentBlockDeltaChoiceDeltas(chunk, md))
          [] chunk.type = "message_delta" ->
               yield([st.stream_manager EXCEPT !.usage = MessageDeltaUsage(@, chunk)],
                     MessageDeltaChoiceDeltas(chunk, md))
          [] OTHER -> st

\* The aggregator, the context and the delta frames of a call that has
\* processed these events alone.
RECURSIVE AloneRun(_)
AloneRun(events) ==
    IF events = <<>>
    THEN [stream_manager |-> StreamingManagerInit, message_metadata |-> Null, frames |-> <<>>]
    ELSE AloneStep(AloneRun(SubSeq(events, 1, Len(events) - 1)), events[Len(events)])

\* The call with this frame stands where it stands when it runs alone.
AsAlone(c) ==
    LET events == [k \in 1 .. Len(c.consumed) |-> c.consumed[k].chunk]
        alone  == AloneRun(events)
        deltas == SelectSeq(c.out, IsDelta)
    IN  /\ events = SubSeq(ScenarioEvents(c.transcript), 1, Len(events))
        /\ [k \in 1 .. Len(deltas) |-> deltas[k].delta] = alone.frames
        /\ c.stream_manager = alone.stream_manager
        /\ c.message_metadata = alone.message_metadata
        /\ \A k \in 1 .. Len(c.out) :
              IsFinal(c.out[k]) => c.out[k].final = Complete(alone.stream_manager)

C21_CallIsolation == AsAlone(Frame) /\ (parked # Null => AsAlone(parked))

\* Both calls are in mid-stream on different transcripts, one suspended
\* at the yield of its second text frame while the other has just emitted
\* its first.
C21_Witness ==
    /\ parked # Null
    /\ parked.transcript.fragments # transcript.fragments
    /\ parked.pc = "yielded" /\ Len(parked.consumed) = 4
    /\ pc = "yielded" /\ Len(consumed) = 3
    /\ Len(out) = 1 /\ Len(parked.out) = 2

\* The same call, alone: the reference the interleaved calls are held to.
AloneIsAlone == AsAlone(Frame)

\* generate_response has returned the response parse_response made of the
\* vendor's final Message.
Parsed ==
    /\ pc = "returned"
    /\ ~self.config.streaming
    /\ "chat_response" \in DOMAIN call
    /\ IsSet(call.chat_response)

\* The kinds process_content_item tests for (chat.py:319-344).
KnownBlockTypes == {"text", "thinking", "redacted_thinking", "tool_use"}

\* The variant a vendor block is mapped to.
VariantOf(block) ==
    CASE block.type = "text" -> "text"
      [] block.type \in {"thinking", "redacted_thinking"} -> "reasoning"
      [] block.type = "tool_use" -> "tool_call"
      [] OTHER -> "unknown"

(***************************************************************************)
(* C22. Non-streaming index synthesis: parse_response maps a complete      *)
(* vendor message to a ChatResponse with exactly one choice, of index 0,   *)
(* whose content items are in the vendor's order and carry the indices     *)
(* 0, 1, ..., n-1 of their enumeration, with the finish_reason and the     *)
(* stop_sequence of the message and metadata streaming = false; every      *)
(* content item produced, of every kind, carries its enumeration index.    *)
(***************************************************************************)
C22_IndexSynthesis ==
    Parsed =>
        LET message == FinalMessage(transcript)
            response == call.chat_response
        IN  /\ Len(response.choices) = 1
            /\ response.choices[1].index = 0
            /\ response.choices[1].finish_reason = message.stop_reason
            /\ response.choices[1].stop_sequence = message.stop_sequence
            /\ response.metadata.streaming = FALSE
            /\ Len(response.choices[1].contents) = Len(message.content)
            /\ \A k \in 1 .. Len(message.content) :
                  /\ response.choices[1].contents[k].type = VariantOf(message.content[k])
                  /\ response.choices[1].contents[k].index = k - 1

\* The part of it that holds: the one choice, its stop fields, the metadata,
\* the order of the items, and the enumeration index of every item of a
\* kind process_content_item tests for.
RecognizedIndexSynthesis ==
    Parsed =>
        LET message == FinalMessage(transcript)
            response == call.chat_response
        IN  /\ Len(response.choices) = 1
            /\ response.choices[1].index = 0
            /\ response.choices[1].finish_reason = message.stop_reason
            /\ response.choices[1].stop_sequence = message.stop_sequence
            /\ response.metadata.streaming = FALSE
            /\ Len(response.choices[1].contents) = Len(message.content)
            /\ \A k \in 1 .. Len(message.content) :
                  /\ response.choices[1].contents[k].type = VariantOf(message.content[k])
                  /\ message.content[k].type \in KnownBlockTypes
                        => response.choices[1].contents[k].index = k - 1

(***************************************************************************)
(* C23. Non-streaming unknown-kind resilience: in the non-streaming parse  *)
(* path a content block of an unrecognized kind causes no failure; it is   *)
(* mapped to an Unknown content item carrying the raw payload, and the     *)
(* other blocks of the message are still mapped to their variants: text,   *)
(* reasoning with its signature, redacted reasoning, tool call with id,    *)
(* name and input.                                                         *)
(***************************************************************************)
C23_UnknownBlockResilience ==
    Parsed =>
        LET message == FinalMessage(transcript)
            contents == call.chat_response.choices[1].contents
        IN  /\ Len(contents) = Len(message.content)
            /\ \A k \in 1 .. Len(message.content) :
                  LET block == message.content[k]
                      item == contents[k]
                  IN  /\ item.role = message.role
                      /\ CASE block.type = "text" ->
                                 /\ item.type = "text" /\ item.text = block.text
                                 /\ item.index = k - 1
                           [] block.type = "thinking" ->
                                 /\ item.type = "reasoning"
                                 /\ item.thinking_text = block.thinking
                                 /\ item.metadata = [signature |-> block.signature]
                                 /\ item.index = k - 1
                           [] block.type = "redacted_thinking" ->
                                 /\ item.type = "reasoning"
                                 /\ item.metadata = [redacted_thinking_data |-> block.data]
                                 /\ item.index = k - 1
                           [] block.type = "tool_use" ->
                                 /\ item.type = "tool_call"
                                 /\ item.metadata.tool_use
                                       = [id |-> block.id, input |-> block.input,
                                          name |-> block.name]
                                 /\ item.index = k - 1
                           [] OTHER ->
                                 item.type = "unknown" /\ item.raw = block

\* A message that opens with a block of an unrecognized kind and goes on
\* with a tool call has been parsed.
C23_Witness ==
    /\ Parsed
    /\ Len(transcript.blocks) = 2
    /\ transcript.blocks[1] \in UnknownBlocks
    /\ transcript.blocks[2].type = "tool_use"
    /\ call.chat_response.choices[1].contents[2].type = "tool_call"

\* The call gets as far as the provider: the preconditions hold, the
\* request is built and test mode is off.
ReachesProvider ==
    /\ Precondition(self) = Null
    /\ "raises" \notin DOMAIN GetMaxOutputTokens(self.config, self.ai_model)
    /\ ~self.config.test_mode

(***************************************************************************)
(* C28. Non-streaming failures become a status, not an exception: in a     *)
(* non-streaming call, an exception raised by the provider call or by      *)
(* parse_response is caught, and generate_response returns an              *)
(* AIModelCallResponse with an error status and a null chat_response; on   *)
(* success it returns a success status with a non-null chat_response;      *)
(* never a success status with a null chat_response, nor an error status   *)
(* with a chat_response.                                                   *)
(***************************************************************************)
C28_FailureIsStatus ==
    (ReachesProvider /\ ~self.config.streaming /\ pc # "call") =>
        /\ pc = "returned"
        /\ DOMAIN call = ResponseFields
        /\ \/ /\ call.status \in { CreateErrorStatus("APIError"),
                                   CreateErrorStatus("ValidationError") }
              /\ call.chat_response = Null
           \/ /\ call.status = CreateSuccessStatus
              /\ call.chat_response = ParseResponse(FinalMessage(transcript))
              /\ call.chat_response # Null

\* parse_response raised on the Message of a successful provider call, and
\* generate_response returned the error status.
C28_Witness ==
    /\ ReachesProvider /\ ~self.config.streaming
    /\ pc = "returned"
    /\ call.status = CreateErrorStatus("ValidationError")
    /\ call.chat_response = Null

\* A streaming call whose provider call opened the stream: generate_response
\* is over, and not by the failure of that call.
StreamOpened ==
    /\ ReachesProvider /\ self.config.streaming
    /\ pc # "call"
    /\ ~OpenFailed

(***************************************************************************)
(* C29. Streaming call hands back the stream: in streaming mode, when the  *)
(* provider call that opens the stream succeeds, generate_response returns *)
(* an AIModelCallResponse whose stream_generator is the non-null generator *)
(* of the streaming handler and whose chat_response is null;               *)
(* stream_generator is the async generator when one is set and otherwise   *)
(* the sync generator, and full_response is chat_response when set and     *)
(* otherwise image_response.                                               *)
(***************************************************************************)
C29_StreamHandedBack ==
    StreamOpened =>
        /\ DOMAIN call = ResponseFields
        /\ StreamGeneratorOf(call) = HandlerGenerator
        /\ StreamGeneratorOf(call) # Null
        /\ call.chat_response = Null
        /\ StreamGeneratorOf(call) = IF call.async_stream_generator # Null
                                     THEN call.async_stream_generator
                                     ELSE call.sync_stream_generator
        /\ FullResponse(call) = IF call.chat_response # Null
                                THEN call.chat_response ELSE call.image_response

\* What the streaming call does hand back once the stream is open: a
\* response without a generator, the keyword dropped, or the error status
\* of the keyword's refusal.
StreamNotHandedBack ==
    StreamOpened =>
        /\ pc = "returned"
        /\ DOMAIN call = ResponseFields
        /\ StreamGeneratorOf(call) = Null
        /\ call.chat_response = Null
        /\ call.status \in {Null, CreateErrorStatus("ValidationError")}

\* The exceptions of chat.py:57 and 60.
ClientNotInitialized == [raises |-> "RuntimeError", message |-> "Client not initialized"]
ValidationPending == [raises |-> "ValueError", message |-> "inputs must be validated"]

\* The two preconditions raise as chat.py:56-60 has them, the client check
\* first, and nothing of the request or of the provider shows in the outcome.
PreconditionsRaise ==
    /\ ~self._client => pc = "call_raised" /\ call = ClientNotInitialized
    /\ self._client /\ self._input_validation_pending =>
          pc = "call_raised" /\ call = ValidationPending

(***************************************************************************)
(* C30. Call preconditions: generate_response raises RuntimeError when the *)
(* client is not initialized and ValueError when input validation is still *)
(* pending, the client check taking precedence, in both cases before any   *)
(* request is built or any provider call is made; these two conditions are *)
(* the only ones under which generate_response raises.                     *)
(***************************************************************************)
C30_CallPreconditions ==
    pc # "call" =>
        /\ PreconditionsRaise
        /\ pc = "call_raised" => ~self._client \/ self._input_validation_pending

(***************************************************************************)
(* C30, amended: generate_response raises RuntimeError when the client is  *)
(* not initialized and ValueError when input validation is still pending,  *)
(* the client check taking precedence, in both cases before any request is *)
(* built or any provider call is made; when both hold it raises the        *)
(* ValueError of get_max_output_tokens if the request cannot be built (no  *)
(* model, or the model's output-token cap unset); once the request is      *)
(* built it does not raise: a failure of the provider call or of           *)
(* parse_response is returned as a status.                                 *)
(***************************************************************************)
C30_CallPreconditionsAmended ==
    pc # "call" =>
        /\ PreconditionsRaise
        /\ LET budget == GetMaxOutputTokens(self.config, self.ai_model)
           IN  (Precondition(self) = Null /\ "raises" \in DOMAIN budget) =>
                   /\ pc = "call_raised" /\ call = budget
                   /\ call.raises = "ValueError"
        /\ pc = "call_raised" =>
              \/ Precondition(self) # Null
              \/ "raises" \in DOMAIN GetMaxOutputTokens(self.config, self.ai_model)
        /\ (Precondition(self) = Null
            /\ "raises" \notin DOMAIN GetMaxOutputTokens(self.config, self.ai_model)) =>
              pc = "returned"

\* The call of a client that is not initialized, whose validation is
\* pending and whose endpoint has no model raised the RuntimeError.
C30_Witness ==
    /\ ~self._client /\ self._input_validation_pending /\ self.ai_model = Null
    /\ pc = "call_raised"
    /\ call.raises = "RuntimeError"

\* The output tokens the message_delta events among the first k consumed
\* events carried, summed.
RECURSIVE DeltaTokens(_)
DeltaTokens(k) ==
    IF k = 0 THEN 0
    ELSE DeltaTokens(k - 1)
            + (IF consumed[k].chunk.type = "message_delta"
               THEN consumed[k].chunk.usage.output_tokens ELSE 0)

\* The stream opened with a message_start that carries usage.
StartedWithUsage ==
    /\ consumed # <<>>
    /\ consumed[1].chunk.type = "message_start"
    /\ consumed[1].chunk.message.usage # Null

(***************************************************************************)
(* C27. Additive completion tokens: after a Stream-Start carrying usage    *)
(* (prompt p, completion seed c0) followed by Message-Delta events         *)
(* carrying the output token counts c1..cn, the usage of the aggregator is *)
(* prompt_tokens = p, completion_tokens = c0 + c1 + ... + cn and           *)
(* total_tokens = p + c0 + c1 + ... + cn, and this is the usage of the     *)
(* final response.                                                         *)
(***************************************************************************)
C27_AdditiveCompletionTokens ==
    StartedWithUsage =>
        LET p == consumed[1].chunk.message.usage.input_tokens
            c0 == consumed[1].chunk.message.usage.output_tokens
            sum == DeltaTokens(Len(consumed))
            usage == [total_tokens |-> p + c0 + sum, prompt_tokens |-> p,
                      completion_tokens |-> c0 + sum]
        IN  /\ stream_manager.usage = usage
            /\ HasFinal => FinalResponse.usage = usage

\* A seeded stream of two message_delta events, each with output tokens,
\* has ended with its final response.
C27_Witness ==
    /\ StartedWithUsage
    /\ consumed[1].chunk.message.usage.output_tokens = MaxTokens
    /\ Len(consumed) = 3
    /\ consumed[2].chunk.type = "message_delta"
    /\ consumed[3].chunk.type = "message_delta"
    /\ DeltaTokens(3) = 2 * MaxTokens
    /\ HasFinal
    /\ FinalResponse.usage.completion_tokens = 3 * MaxTokens

\* parse_sse has decoded a frame that arrived from the wire.
Decoded == sse # Null /\ sse.stage = "parsed" /\ sse.frame # Null

\* The decoded frame is one of those the claim lists: an unrecognized event
\* name, no data line, data that is not valid JSON, JSON that is not an
\* object, an error_code outside the closed set in an error frame, or a
\* retry that is no integer.
Malformed(frame) ==
    \/ frame.event = "bogus"
    \/ frame.data \in {"none", "not_json", "array", "null"}
    \/ frame.data = "bad_code" /\ frame.event \in {"error", "none"}
    \/ frame.retry = "abc"

IsResponse(x) == "class" \in DOMAIN x /\ x.class \in {"SSEResponse", "SSEErrorResponse"}

IsDecodeError(x) ==
    /\ "class" \in DOMAIN x
    /\ x.class = "SSEErrorResponse"
    /\ x.event = "error"
    /\ x.data.error_code = "client_decode_error"

(***************************************************************************)
(* C24. SSE decode never faults: parse_sse returns a response object for   *)
(* every input string and never raises; a frame with an unrecognized event *)
(* name, with no data line, with data that is not valid JSON, with JSON    *)
(* that is not an object, with an error_code outside the closed set, or    *)
(* with a non-integer retry decodes to an error response whose error_code  *)
(* is client_decode_error.                                                 *)
(***************************************************************************)
C24_DecodeNeverFaults ==
    (sse # Null /\ sse.stage = "parsed") =>
        /\ IsResponse(sse.parsed)
        /\ "raises" \notin DOMAIN sse.parsed
        /\ (sse.frame # Null /\ Malformed(sse.frame)) => IsDecodeError(sse.parsed)

\* A push frame whose data is a JSON array has been decoded to the error
\* response.
C24_Witness ==
    /\ Decoded
    /\ sse.frame.event = "push" /\ sse.frame.data = "array" /\ sse.frame.retry = "5"
    /\ IsDecodeError(sse.parsed)

\* A frame of the wire that is none of the malformed ones decodes to a
\* response of its event type that is no decode error.
WellFormedDecodes ==
    (Decoded /\ ~Malformed(sse.frame) /\ sse.frame.data # "bad_index") =>
        /\ IsResponse(sse.parsed)
        /\ ~IsDecodeError(sse.parsed)
        /\ sse.parsed.event = (IF sse.frame.event = "none" THEN "error" ELSE sse.frame.event)

\* parse_sse has decoded the frame to_sse_format made of a response.
RoundTripped == sse # Null /\ sse.stage = "parsed" /\ sse.response # Null

(***************************************************************************)
(* C25. SSE round trip: parsing is the structural inverse of               *)
(* serialization: for every SSEResponse r of event type token_stream, push *)
(* or error (data an SSEDataChunk or SSEErrorData, id set or unset, retry  *)
(* set or unset), parse_sse(r.to_sse_format()) reconstructs a response     *)
(* with the same event type, id, retry and data as r.                      *)
(***************************************************************************)
C25_RoundTrip ==
    RoundTripped =>
        /\ IsResponse(sse.parsed)
        /\ sse.parsed.event = sse.response.event
        /\ sse.parsed.id = sse.response.id
        /\ sse.parsed.retry = sse.response.retry
        /\ sse.parsed.data = sse.response.data

\* The round trip as far as it holds: event type and retry always, the id
\* when it is set, the data when its text holds no line boundary.
RoundTripOfTheRest ==
    RoundTripped =>
        /\ IsResponse(sse.parsed)
        /\ sse.parsed.event = sse.response.event
        /\ sse.parsed.retry = sse.response.retry
        /\ "str" \in DOMAIN sse.response.id => sse.parsed.id = sse.response.id
        /\ (sse.response.data.class = "SSEDataChunk"
            /\ LS \notin Range(sse.response.data.content))
              => sse.parsed.data = sse.response.data
        /\ sse.response.data.class = "SSEErrorData" => sse.parsed.data = sse.response.data

\* to_sse_format has serialized a response.
Serialized == sse # Null /\ sse.stage \in {"wire", "parsed"} /\ sse.response # Null

\* The lines of the serialized frame whose field is name.
LinesOf(lines, name) == { k \in 1 .. Len(lines) : lines[k] # <<>> /\ lines[k][1] = name }

(***************************************************************************)
(* C26. SSE frame layout: to_sse_format produces, in this order, one       *)
(* event: line, one id: line, a retry: line if and only if retry is set,   *)
(* and one or more data: lines, one per line of the serialized payload,    *)
(* terminated by a blank line; the event name written is one of            *)
(* token_stream, push, error.                                              *)
(***************************************************************************)
C26_FrameLayout ==
    Serialized =>
        LET r == sse.response
            lines == Split(sse.text, {NL})
            n == Len(lines)
            payload == SplitLines(ModelDumpJson(r.data))
            head == IF r.retry = <<>> THEN 2 ELSE 3
        IN  /\ n = head + Len(payload) + 2
            /\ Len(payload) >= 1
            /\ lines[1] = <<"event", ":", " ", r.event>>
            /\ r.event \in SSEEventType
            /\ SubSeq(lines[2], 1, 3) = <<"id", ":", " ">>
            /\ r.retry # <<>> => lines[3] = <<"retry", ":", " ", IntWord(r.retry[1])>>
            /\ LinesOf(lines, "event") = {1}
            /\ LinesOf(lines, "id") = {2}
            /\ LinesOf(lines, "retry") = (IF r.retry = <<>> THEN {} ELSE {3})
            /\ LinesOf(lines, "data") = head + 1 .. head + Len(payload)
            /\ \A k \in 1 .. Len(payload) :
                  lines[head + k] = <<"data", ":", " ">> \o payload[k]
            /\ lines[n - 1] = <<>> /\ lines[n] = <<>>

\* A chunk whose payload has two lines has been serialized with retry 0:
\* the frame holds the retry line and two data lines.
C26_Witness ==
    /\ Serialized
    /\ sse.stage = "wire"
    /\ sse.response.retry = <<0>>
    /\ sse.response.event = "token_stream"
    /\ Len(SplitLines(ModelDumpJson(sse.response.data))) = 2
    /\ Cardinality(LinesOf(Split(sse.text, {NL}), "data")) = 2

\* The data of the frame is a JSON object.
ObjectData(frame) ==
    frame.data \in {"chunk", "chunk_on_two_lines", "error", "bad_code", "bad_index",
                    "empty_object"}

\* What the data of the frame holds under a key of an error payload, or
\* the default when it holds none.
ErrorFieldOf(frame, key, default) ==
    IF frame.data = "error"
    THEN (IF key = "error_code" THEN "external_api_error" ELSE <<"boom">>)
    ELSE default

Resolved == budget_call # Null /\ budget_call.result # Null
ResolvedPair == Resolved /\ "raises" \notin DOMAIN budget_call.result

\* Reasoning is requested of a model that supports it.
ReasoningMode(config, model) == config.reasoning /\ model.settings.supports_reasoning

\* The model's cap of output tokens for the mode of the call.
ModeCap(config, model) ==
    IF ReasoningMode(config, model) THEN model.settings.max_output_tokens_reasoning_mode
    ELSE model.settings.max_output_tokens

\* The budget asked for, or the cap when none is asked for.
AskedFor(asked, cap) == IF asked # <<>> THEN asked[1] ELSE cap

(***************************************************************************)
(* C31. Output-token budget resolution: get_max_output_tokens returns as   *)
(* max_output_tokens the minimum of the call-config value and the model's  *)
(* cap when the call-config value is set, and the model's cap otherwise,   *)
(* so the result never exceeds the model's cap; the cap used is the        *)
(* model's reasoning-mode cap exactly when reasoning is requested and the  *)
(* model supports reasoning, and the normal cap otherwise.                 *)
(***************************************************************************)
C31_OutputBudget ==
    ResolvedPair =>
        LET config == budget_call.config
            cap == ModeCap(config, budget_call.model)
            result == budget_call.result.max_output_tokens
        IN  /\ cap # <<>>
            /\ result = (IF config.max_output_tokens # <<>>
                         THEN Min({config.max_output_tokens[1], cap[1]})
                         ELSE cap[1])
            /\ result <= cap[1]

\* Reasoning is requested of a model that supports it with a budget above
\* the reasoning-mode cap, which is below the normal cap: the reasoning-mode
\* cap is returned.
C31_Witness ==
    /\ ResolvedPair
    /\ budget_call.config.reasoning
    /\ budget_call.config.max_output_tokens = <<MaxBudget>>
    /\ budget_call.model.settings.supports_reasoning
    /\ budget_call.model.settings.max_output_tokens = <<MaxBudget>>
    /\ budget_call.model.settings.max_output_tokens_reasoning_mode = <<1>>
    /\ budget_call.result.max_output_tokens = 1

(***************************************************************************)
(* C32. Reasoning-token budget resolution: get_max_output_tokens returns   *)
(* max_reasoning_tokens = null exactly when reasoning is not requested, or *)
(* the model does not support reasoning, or the model defines no           *)
(* reasoning-token cap; otherwise it returns the minimum of the            *)
(* call-config reasoning budget (or the model's cap when unset) and the    *)
(* model's reasoning-token cap.                                            *)
(***************************************************************************)
C32_ReasoningBudget ==
    ResolvedPair =>
        LET config == budget_call.config
            settings == budget_call.model.settings
            cap == settings.max_reasoning_tokens
            result == budget_call.result.max_reasoning_tokens
        IN  IF ~config.reasoning \/ ~settings.supports_reasoning \/ cap = <<>>
            THEN result = <<>>
            ELSE result = << Min({AskedFor(config.max_reasoning_tokens, cap[1]), cap[1]}) >>

\* Reasoning is requested of a model that supports it with a reasoning
\* budget above the model's reasoning-token cap: the cap is returned.
C32_Witness ==
    /\ ResolvedPair
    /\ budget_call.config.reasoning
    /\ budget_call.config.max_reasoning_tokens = <<MaxBudget>>
    /\ budget_call.model.settings.supports_reasoning
    /\ budget_call.model.settings.max_reasoning_tokens = <<1>>
    /\ budget_call.result.max_reasoning_tokens = <<1>>

(***************************************************************************)
(* C33. Invalid budget configuration is rejected: get_max_output_tokens    *)
(* raises ValueError when no model is given or when the model's cap for    *)
(* the selected mode (normal or reasoning) is unset or zero, and returns   *)
(* no pair in those cases (and it raises in no other case); requesting     *)
(* reasoning on a model that does not support it is not an error and falls *)
(* back to the normal cap with a null reasoning budget.                    *)
(***************************************************************************)
C33_InvalidBudgetRejected ==
    Resolved =>
        LET config == budget_call.config
            model == budget_call.model
            result == budget_call.result
            invalid == model = Null \/ ModeCap(config, model) \in {<<>>, <<0>>}
        IN  /\ invalid =>
                  /\ "raises" \in DOMAIN result
                  /\ result.raises = "ValueError"
                  /\ "max_output_tokens" \notin DOMAIN result
            /\ ~invalid => "raises" \notin DOMAIN result
            /\ (/\ model # Null
                /\ config.reasoning /\ ~model.settings.supports_reasoning
                /\ model.settings.max_output_tokens \notin {<<>>, <<0>>}) =>
                  /\ "raises" \notin DOMAIN result
                  /\ result.max_output_tokens =
                        Min({AskedFor(config.max_output_tokens,
                                      model.settings.max_output_tokens[1]),
                             model.settings.max_output_tokens[1]})
                  /\ result.max_reasoning_tokens = <<>>

\* Reasoning is requested of a model that supports it and whose
\* reasoning-mode cap is zero, its normal cap being set: the call has raised.
C33_Witness ==
    /\ Resolved
    /\ budget_call.model # Null
    /\ budget_call.config.reasoning
    /\ budget_call.model.settings.supports_reasoning
    /\ budget_call.model.settings.max_output_tokens = <<MaxBudget>>
    /\ budget_call.model.settings.max_output_tokens_reasoning_mode = <<0>>
    /\ "raises" \in DOMAIN budget_call.result
    /\ budget_call.result.raises = "ValueError"

\* generate_response has built the request of the call.
RequestBuilt == chat_args # Null

\* The thinking switch a resolved reasoning budget asks for.
ThinkingFor(max_reasoning_tokens) ==
    IF max_reasoning_tokens # <<>>
    THEN [type |-> "enabled", budget_tokens |-> max_reasoning_tokens[1]]
    ELSE [type |-> "disabled"]

\* The request carries the resolved budgets and the streaming flag of the
\* call configuration.
RequestFollowsBudget ==
    LET resolved == GetMaxOutputTokens(self.config, self.ai_model)
    IN  /\ chat_args.thinking = ThinkingFor(resolved.max_reasoning_tokens)
        /\ chat_args.max_tokens = resolved.max_output_tokens
        /\ chat_args.stream = self.config.streaming

(***************************************************************************)
(* C34. Thinking switch follows the resolved budget: the request built by  *)
(* generate_response has thinking enabled with budget_tokens equal to the  *)
(* resolved max_reasoning_tokens exactly when that resolved value is       *)
(* non-null, and thinking disabled otherwise; max_tokens equals the        *)
(* resolved max_output_tokens; and the request's stream flag equals the    *)
(* call-config streaming flag.                                             *)
(***************************************************************************)
C34_ThinkingFollowsBudget == RequestBuilt => RequestFollowsBudget

\* The request follows the budget where the options of the call
\* configuration name none of stream, max_tokens and thinking.
RequestFollowsBudgetWithoutOptions ==
    (RequestBuilt /\ DOMAIN self.config.options \cap {"stream", "max_tokens", "thinking"} = {})
        => RequestFollowsBudget

\* A request has been built with thinking enabled at the resolved budget.
ThinkingEnabled ==
    /\ RequestBuilt
    /\ self.config.options = [temperature |-> 1]
    /\ chat_args.thinking = [type |-> "enabled", budget_tokens |-> 1]
    /\ chat_args.max_tokens = MaxBudget
    /\ chat_args.temperature = 1

====
